---- MODULE Spec2Model ----
(***************************************************************************)
(* Model of the neurodiverse-job-quest questionnaire application:          *)
(*   - the Flask request pipeline of src/app.py (submit_questionnaire,     *)
(*     results, analyze_responses, get_job_recommendations and the two     *)
(*     recommendation strategies),                                         *)
(*   - ResponseEvaluator (src/response_evaluator.py),                      *)
(*   - JobAnalyzer (src/job_analyzer.py),                                  *)
(*   - normalize_analysis_data as a pure function over raw records.        *)
(*                                                                         *)
(* Python values are tagged records: Str(s), PyNone, Dict(f), Raise(e).    *)
(* A Python dict is a TLA+ function whose DOMAIN is the dict's key set,    *)
(* so that `k in d` is `k \in DOMAIN f`.                                   *)
(***************************************************************************)
EXTENDS Integers, Sequences, FiniteSets, TLC

VARIABLES
    session,            \* Flask session: dict from "q1".."q5" to answer strings
    pc,                 \* position of the request being served
    analysis,           \* value returned by analyze_responses
    recommendations,    \* value returned by get_job_recommendations
    response,           \* kind of the last HTTP response
    assessments,        \* rows of the Assessment table (src/models.py)
    openai_api_key,     \* whether OPENAI_API_KEY is configured
    calls,              \* collaborator calls made by the current request
    attempt,            \* loop index of the retrieval retry loop
    retrieval_results,  \* local of get_recommendations_from_bedrock
    bedrock_pct,        \* local bedrock_relevancy_percentage (or Unbound)
    raw,                \* input of normalize_analysis_data
    normalized,         \* normalized_analysis
    dynamo,             \* what the two DynamoDB tables answered in this request
    collaborators,      \* behaviour of the crew and the LLM of the evaluator under test
    evaluation_result,  \* local `evaluation` of get_additional_insights
    templates,          \* entries of the dict analysis_templates assigned at run time
    request_form,       \* request.form of the last POST /submit_questionnaire
    submissions,        \* number of completed questionnaire submissions
    query,              \* local `query` of get_recommendations_from_bedrock
    instances           \* locals of the handler instances of results_api.py

vars == <<session, pc, analysis, recommendations, response, assessments,
          openai_api_key, calls, attempt, retrieval_results, bedrock_pct,
          raw, normalized, dynamo, collaborators, evaluation_result,
          templates, request_form, submissions, query, instances>>

-----------------------------------------------------------------------------
(* Python values *)

Str(s) == [t |-> "str", s |-> s]
PyNone == [t |-> "None"]
Dict(f) == [t |-> "dict", v |-> f]
Raise(e) == [t |-> "raise", exc |-> e]
EmptyDict == [k \in {} |-> PyNone]

\* Python truthiness (bool(x)) of the values of the model.
Truthy(x) ==
    CASE x.t = "None" -> FALSE
      [] x.t = "str" -> x.s # ""
      [] x.t = "dict" -> DOMAIN x.v # {}
      [] x.t = "int" -> x.n # 0
      [] x.t = "list" -> x.v # <<>>
      [] x.t = "bool" -> x.b
      [] OTHER -> TRUE

\* dict.get(key, default)
DictGet(d, key, default) == IF key \in DOMAIN d THEN d[key] ELSE default

-----------------------------------------------------------------------------
(* json.loads on the JSON texts the model uses *)

JsonBoth == "{\"description\": \"Y\", \"explanation\": \"Z\"}"
JsonDescOnly == "{\"description\": \"Y\"}"
JsonExpOnly == "{\"explanation\": \"Z\"}"
JsonEmptyObject == "{}"
JsonNullDesc == "{\"description\": null, \"explanation\": \"Z\"}"
JsonNumber == "123"
JsonList == "[]"
JsonNull == "null"
NotJson == "plain text"

json_loads(s) ==
    CASE s = JsonBoth -> Dict([description |-> Str("Y"), explanation |-> Str("Z")])
      [] s = JsonDescOnly -> Dict([description |-> Str("Y")])
      [] s = JsonExpOnly -> Dict([explanation |-> Str("Z")])
      [] s = JsonEmptyObject -> Dict(EmptyDict)
      [] s = JsonNullDesc -> Dict([description |-> PyNone, explanation |-> Str("Z")])
      [] s = JsonNumber -> [t |-> "int", n |-> 123]
      [] s = JsonList -> [t |-> "list", v |-> <<>>]
      [] s = JsonNull -> PyNone
      [] OTHER -> Raise("JSONDecodeError")

-----------------------------------------------------------------------------
(* normalize_analysis_data *)

MainSections == <<"work_style", "environment", "interaction_level", "task_preference">>
AllSections == {"work_style", "environment", "interaction_level", "task_preference",
                "additional_insights"}

NormalizedDefault ==
    [s \in AllSections |->
        IF s = "additional_insights"
        THEN Dict([description |-> Str("No additional insights"), explanation |-> Str("")])
        ELSE Dict([description |-> Str(""), explanation |-> Str("")])]

\* normalized[section][field] = val
SetField(n, section, field, val) ==
    [n EXCEPT ![section] = Dict([@.v EXCEPT ![field] = val])]

\* One iteration of the first loop: the flattened pair of a section.
NormalizeFlattened(n, ad, section) ==
    LET desc_key == section \o "_description"
        exp_key == section \o "_explanation"
        n1 == IF desc_key \in DOMAIN ad
              THEN SetField(n, section, "description", ad[desc_key]) ELSE n
    IN IF exp_key \in DOMAIN ad
       THEN SetField(n1, section, "explanation", ad[exp_key]) ELSE n1

\* Variant of the second loop's iteration in which a nested dict does not
\* overwrite a field that the flattened pair has set.
NormalizeNestedKeepFlattened(n, ad, section) ==
    IF section \notin DOMAIN ad THEN n
    ELSE LET val == ad[section] IN
         CASE val.t = "dict" ->
                LET n1 == IF "description" \in DOMAIN val.v
                             /\ (section \o "_description") \notin DOMAIN ad
                          THEN SetField(n, section, "description", val.v["description"])
                          ELSE n
                IN IF "explanation" \in DOMAIN val.v
                      /\ (section \o "_explanation") \notin DOMAIN ad
                   THEN SetField(n1, section, "explanation", val.v["explanation"])
                   ELSE n1
           [] val.t = "str" ->
                LET section_data == json_loads(val.s) IN
                CASE section_data.t = "raise" ->
                       SetField(n, section, "description", val)
                  [] section_data.t = "dict" ->
                       SetField(SetField(n, section, "description",
                                         DictGet(section_data.v, "description", Str(""))),
                                section, "explanation",
                                DictGet(section_data.v, "explanation", Str("")))
                  [] OTHER -> Raise("AttributeError")
           [] OTHER -> n

\* One iteration of the second loop: the nested dict or string of a section.
\* section_data.get on a decoded value that is not a dict raises
\* AttributeError, which the except clause (JSONDecodeError, TypeError) does
\* not catch.
NormalizeNested(n, ad, section) ==
    IF section \notin DOMAIN ad THEN n
    ELSE LET val == ad[section] IN
         CASE val.t = "dict" ->
                LET n1 == IF "description" \in DOMAIN val.v
                          THEN SetField(n, section, "description", val.v["description"])
                          ELSE n
                IN IF "explanation" \in DOMAIN val.v
                   THEN SetField(n1, section, "explanation", val.v["explanation"])
                   ELSE n1
           [] val.t = "str" ->
                LET section_data == json_loads(val.s) IN
                CASE section_data.t = "raise" ->
                       SetField(n, section, "description", val)
                  [] section_data.t = "dict" ->
                       SetField(SetField(n, section, "description",
                                         DictGet(section_data.v, "description", Str(""))),
                                section, "explanation",
                                DictGet(section_data.v, "explanation", Str("")))
                  [] OTHER -> Raise("AttributeError")
           [] OTHER -> n

\* The additional_insights block.
NormalizeInsights(n, ad) ==
    IF "additional_insights" \notin DOMAIN ad THEN n
    ELSE LET val == ad["additional_insights"] IN
         CASE val.t = "dict" ->
                SetField(SetField(n, "additional_insights", "description",
                                  DictGet(val.v, "description", Str("No additional insights"))),
                         "additional_insights", "explanation",
                         DictGet(val.v, "explanation", Str("")))
           [] val.t = "str" ->
                LET insights_data == json_loads(val.s) IN
                CASE insights_data.t = "raise" ->
                       SetField(n, "additional_insights", "description", val)
                  [] insights_data.t = "dict" ->
                       SetField(SetField(n, "additional_insights", "description",
                                         DictGet(insights_data.v, "description",
                                                 Str("No additional insights"))),
                                "additional_insights", "explanation",
                                DictGet(insights_data.v, "explanation", Str("")))
                  [] OTHER -> Raise("AttributeError")
           [] OTHER -> n

\* n is the normalized dict (a function over section names) or Raise(..).
IsRaise(x) == "t" \in DOMAIN x

RECURSIVE FlattenedLoop(_, _, _)
FlattenedLoop(n, ad, i) ==
    IF i > Len(MainSections) THEN n
    ELSE FlattenedLoop(NormalizeFlattened(n, ad, MainSections[i]), ad, i + 1)

RECURSIVE NestedLoop(_, _, _)
NestedLoop(n, ad, i) ==
    IF IsRaise(n) \/ i > Len(MainSections) THEN n
    ELSE NestedLoop(NormalizeNested(n, ad, MainSections[i]), ad, i + 1)

\* normalize_analysis_data(analysis_data): PyNone, Raise(..) or Dict(normalized).
normalize_analysis_data(analysis_data) ==
    IF ~Truthy(analysis_data) THEN PyNone
    ELSE LET n1 == FlattenedLoop(NormalizedDefault, analysis_data.v, 1)
             n2 == NestedLoop(n1, analysis_data.v, 1)
             n3 == IF IsRaise(n2) THEN n2 ELSE NormalizeInsights(n2, analysis_data.v)
         IN IF IsRaise(n3) THEN n3 ELSE Dict(n3)

-----------------------------------------------------------------------------
(* Free-text answers and str methods on them *)

EmptyText == ""
BlankText == "   "
ShortText == "quiet"
LongText == "I prefer quiet remote work"
FreeTexts == {EmptyText, BlankText, ShortText, LongText}

\* Variant that strips nothing.
strip_nothing(s) == s

\* str.strip() on the free texts of the model (only BlankText has
\* leading or trailing whitespace).
strip(s) == IF s = BlankText THEN "" ELSE s

\* Variant that takes only the empty string for blank.
IsEmptyOnly(s) == s = ""

\* `not free_response or not free_response.strip()`
IsBlank(s) == s = "" \/ strip(s) = ""

-----------------------------------------------------------------------------
(* ResponseEvaluator (src/response_evaluator.py) *)

Bool(b) == [t |-> "bool", b |-> b]
NoAttr == [t |-> "noattr"]

UsefulText == "{\"is_useful\": true, \"reasoning\": \"R\"}"
NotUsefulText == "{\"is_useful\": false, \"reasoning\": \"R\"}"
NoVerdictText == "{\"reasoning\": \"R\"}"
NoReasonText == "{\"is_useful\": false}"
ProseText == "I cannot decide"
BrokenText == "{is_useful: yes}"
CrewTexts == {UsefulText, NotUsefulText, NoVerdictText, NoReasonText, ProseText, BrokenText}

\* re.search(r'\{.*\}', text, re.DOTALL): the match, or NoAttr for no match.
\* Every text of the model that contains braces starts with '{' and ends
\* with '}'.
SearchJson(text) == IF text = ProseText THEN NoAttr ELSE Str(text)

\* json.loads on the evaluator's texts.
LoadsEvaluation(text) ==
    CASE text = UsefulText -> Dict([is_useful |-> Bool(TRUE), reasoning |-> Str("R")])
      [] text = NotUsefulText -> Dict([is_useful |-> Bool(FALSE), reasoning |-> Str("R")])
      [] text = NoVerdictText -> Dict([reasoning |-> Str("R")])
      [] text = NoReasonText -> Dict([is_useful |-> Bool(FALSE)])
      [] OTHER -> Raise("JSONDecodeError")

\* What crew.kickoff() can do: raise, or return a CrewOutput with an optional
\* raw_output attribute, a string form and an optional result attribute.
CrewOutputs ==
    [t : {"crewoutput"}, raw_output : {NoAttr} \cup {Str(x) : x \in CrewTexts},
     text : CrewTexts,
     result : {NoAttr, Dict([is_useful |-> Bool(TRUE), reasoning |-> Str("D")])}]
CrewOutcomes ==
    {Raise("Exception")} \cup
    {o \in CrewOutputs :
        /\ o.raw_output.t = "str" => o.raw_output.s = o.text /\ o.result = NoAttr
        /\ o.raw_output.t # "str" => o.text \in {ProseText, BrokenText, NotUsefulText}}

EvalEmpty == Dict([is_useful |-> Bool(FALSE), reasoning |-> Str("Response is empty")])
EvalTooShort ==
    Dict([is_useful |-> Bool(FALSE),
          reasoning |-> Str("Response is too short to provide meaningful information")])
EvalUnparsedUseful ==
    Dict([is_useful |-> Bool(TRUE),
          reasoning |-> Str("Unable to properly evaluate the response, defaulting to useful")])
EvalUnparsed ==
    Dict([is_useful |-> Bool(FALSE),
          reasoning |-> Str("Unable to properly evaluate the response, defaulting to not useful")])
EvalError ==
    Dict([is_useful |-> Bool(FALSE),
          reasoning |-> Str("Error in evaluation process, defaulting to not useful")])

\* The part of evaluate_response after crew.kickoff() returned `result`.
ParseCrewResult(result) ==
    LET m1 == IF result.raw_output.t = "str" THEN SearchJson(result.raw_output.s) ELSE NoAttr
        e1 == IF m1.t = "str" THEN LoadsEvaluation(m1.s) ELSE NoAttr
        m2 == SearchJson(result.text)
        e2 == IF m2.t = "str" THEN LoadsEvaluation(m2.s) ELSE NoAttr
    IN CASE e1.t = "dict" -> e1
         [] e2.t = "dict" -> e2
         [] result.result.t = "dict" /\ "is_useful" \in DOMAIN result.result.v -> result.result
         [] OTHER -> EvalUnparsed

\* evaluate_response(free_response) when crew.kickoff() behaves as `crew`.
\* Returns the evaluation and the number of kickoff calls made.
evaluate_response(free_response, crew) ==
    IF IsBlank(free_response) THEN [evaluation |-> EvalEmpty, kickoff |-> 0]
    ELSE IF Len(strip(free_response)) < 10 THEN [evaluation |-> EvalTooShort, kickoff |-> 0]
    ELSE IF crew.t = "raise" THEN [evaluation |-> EvalError, kickoff |-> 1]
    ELSE [evaluation |-> ParseCrewResult(crew), kickoff |-> 1]

\* What openai_client.chat.completions.create can do: raise, or return a
\* message whose content is one of these texts.
LlmOutcomes == {Raise("APIError"), Str(JsonBoth), Str(JsonNumber), Str(NotJson)}

InsightsEmpty ==
    Dict([description |-> Str("No additional information provided"),
          explanation |-> Str("You did not provide any additional context about your work preferences.")])
InsightsLlmFailed ==
    Dict([description |-> Str("Additional information provided, but we couldn't customize the additional insights"),
          explanation |-> Str("You shared specific preferences that provide further context for your work environment needs.")])
InsightsNotRelevant(evaluation) ==
    Dict([description |-> Str("Additional information not relevant for job matching"),
          explanation |-> evaluation.v["reasoning"]])
InsightsNoClient ==
    Dict([description |-> Str("Additional information provided, but couldn't be processed"),
          explanation |-> Str("We couldn't process your additional information at this time due to technical limitations.")])

\* The fields analyze and update count the calls of analyze_responses and of
\* update_item made by get_results of src/lambda_functions/results_api.py.
NoCalls ==
    [evaluate |-> 0, kickoff |-> 0, llm |-> 0, retrieve |-> 0, template |-> 0, job |-> 0,
     analyze |-> 0, update |-> 0]

\* get_additional_insights(free_response, normalized_analysis) of an
\* evaluator built with openai_client (TRUE: a client, FALSE: None), when the
\* crew behaves as `crew` and the LLM as `llm`.  Returns the updated analysis
\* (or the exception raised) and the collaborator calls made.
get_additional_insights(free_response, na, openai_client, crew, llm) ==
    IF IsBlank(free_response)
    THEN [ret |-> [na EXCEPT !["additional_insights"] = InsightsEmpty], calls |-> NoCalls]
    ELSE
    LET ev == evaluate_response(free_response, crew)
        evaluation == ev.evaluation
        c1 == [NoCalls EXCEPT !.evaluate = 1, !.kickoff = ev.kickoff]
    IN
    IF "is_useful" \notin DOMAIN evaluation.v
    THEN [ret |-> Raise("KeyError"), calls |-> c1]
    ELSE IF evaluation.v["is_useful"].b /\ openai_client
    THEN LET custom_insights == IF llm.t = "raise" THEN llm ELSE json_loads(llm.s) IN
         [ret |-> [na EXCEPT !["additional_insights"] =
                       IF custom_insights.t = "raise" THEN InsightsLlmFailed
                       ELSE custom_insights],
          calls |-> [c1 EXCEPT !.llm = 1]]
    ELSE IF ~evaluation.v["is_useful"].b
    THEN IF "reasoning" \notin DOMAIN evaluation.v
         THEN [ret |-> Raise("KeyError"), calls |-> c1]
         ELSE [ret |-> [na EXCEPT !["additional_insights"] = InsightsNotRelevant(evaluation)],
               calls |-> c1]
    ELSE [ret |-> [na EXCEPT !["additional_insights"] = InsightsNoClient], calls |-> c1]

\* Lines 281-372 of analyze_responses (src/app.py): the enrichment of a
\* normalized analysis with the free response.  An exception of the
\* evaluator is caught and the analysis is left as it was.
enrich(na, free_response, openai_client, crew, llm) ==
    IF IsBlank(free_response)
    THEN [ret |-> [na EXCEPT !["additional_insights"] = InsightsEmpty], calls |-> NoCalls]
    ELSE LET r == get_additional_insights(free_response, na, openai_client, crew, llm)
         IN IF IsRaise(r.ret) THEN [ret |-> na, calls |-> r.calls] ELSE r

-----------------------------------------------------------------------------
(* The questionnaire and the profile table *)

\* Option letters of questions 1-4 (src/app.py `questions`).
Options == [q1 |-> {"A", "B"}, q2 |-> {"A", "B"}, q3 |-> {"A", "B", "C"}, q4 |-> {"A", "B", "C"}]
MCQuestions == <<"q1", "q2", "q3", "q4">>
AllQuestions == {"q1", "q2", "q3", "q4", "q5"}

\* Keys of analysis_templates (src/analysis_templates.py): the 36 codes.
TemplateKeys ==
    {a \o b \o c \o d : a \in {"A", "B"}, b \in {"A", "B"}, c \in {"A", "B", "C"},
                        d \in {"A", "B", "C"}}

\* The texts of a profile.  The table's prose is abbreviated to
\* "<key>/<section>/<field>", except the entry the specification quotes.
TemplateText(key, section, field) ==
    IF key = "AAAA" /\ section = "work_style" /\ field = "description"
    THEN "Highly structured and independent work environment"
    ELSE key \o "/" \o section \o "/" \o field

\* Variant of the table that lacks the profile of one code.
incomplete_templates ==
    [key \in TemplateKeys \ {"BBCC"} |->
        Dict([section \in AllSections |->
                Dict([description |-> Str(TemplateText(key, section, "description")),
                      explanation |-> Str(TemplateText(key, section, "explanation"))])])]

analysis_templates ==
    [key \in TemplateKeys |->
        Dict([section \in AllSections |->
                Dict([description |-> Str(TemplateText(key, section, "description")),
                      explanation |-> Str(TemplateText(key, section, "explanation"))])])]

\* The dict analysis_templates at run time: the table as loaded, with the
\* entries assigned since (the variable `templates`) in place of the loaded
\* ones.
NotWritten == [key \in {} |-> PyNone]
InTemplates(key) == key \in DOMAIN templates \/ key \in DOMAIN analysis_templates
TemplateAt(key) ==
    IF key \in DOMAIN templates THEN templates[key] ELSE analysis_templates[key]

\* Variant that answers an unknown code with a default profile.
get_analysis_or_default(q1, q2, q3, q4) ==
    LET key == q1 \o q2 \o q3 \o q4
    IN IF InTemplates(key) THEN TemplateAt(key) ELSE TemplateAt("AAAA")

\* get_analysis_for_combination(q1, q2, q3, q4):
\* key = q1 + q2 + q3 + q4; analysis_templates.get(key, None)
get_analysis_for_combination(q1, q2, q3, q4) ==
    LET key == q1 \o q2 \o q3 \o q4
    IN IF InTemplates(key) THEN TemplateAt(key) ELSE PyNone

\* The objects the names of a request are bound to.  analysis_templates
\* holds, under each key, the dict the module was loaded with; a dict
\* display evaluated during a request makes a new dict.
TableObject(key) == [obj |-> "table", key |-> key]
RequestObject == [obj |-> "request"]
NoObject == [obj |-> "None"]

\* The object get_analysis_for_combination returns: dict.get returns the
\* value stored under the key, not a copy of it.
get_analysis_object(q1, q2, q3, q4) ==
    LET key == q1 \o q2 \o q3 \o q4
    IN IF InTemplates(key) THEN TableObject(key) ELSE NoObject

\* Variant that fills in the missing fields of its argument and returns it.
normalize_in_place(analysis_object, analysis_data) ==
    IF ~Truthy(analysis_data) THEN NoObject ELSE analysis_object

\* The object normalize_analysis_data returns: None for a falsy argument
\* (lines 526-527), else `normalized`, the dict the display of lines 530-551
\* makes together with its five section dicts.  Lines 555-594 read the
\* argument and assign its strings into the new section dicts.
normalize_analysis_object(analysis_object, analysis_data) ==
    IF ~Truthy(analysis_data) THEN NoObject ELSE RequestObject

\* The entries of analysis_templates after the item assignments
\* `normalized_analysis["additional_insights"] = ...` of analyze_responses
\* and get_additional_insights and `analysis[section] = ...` of
\* format_analysis, which leave the dict `object` with the items of `value`:
\* assigned through a table object, they change the entry every later
\* lookup of the key returns.
AssignThrough(table, object, value) ==
    IF object.obj = "table" /\ value.t = "dict"
    THEN [k \in DOMAIN table \cup {object.key} |-> IF k = object.key THEN value ELSE table[k]]
    ELSE table

-----------------------------------------------------------------------------
(* format_analysis: the HTML is kept as what the regular expressions of     *)
(* get_recommendations_from_bedrock read back from it: the five <strong>    *)
(* texts and the five "text-muted" texts.                                   *)

SectionOrder == <<"work_style", "environment", "interaction_level", "task_preference",
                  "additional_insights">>

\* str(value) inside the f-string
ToText(x) ==
    CASE x.t = "str" -> x.s
      [] x.t = "None" -> "None"
      [] x.t = "int" -> "123"
      [] OTHER -> "?"

MissingSection ==
    Dict([description |-> Str("Not available"),
          explanation |-> Str("This section was missing from the analysis.")])
MissingInsights == Dict([description |-> Str("No additional insights"), explanation |-> Str("")])
MalformedAnalysis ==
    [s \in AllSections |->
        Dict([description |-> Str(IF s = "additional_insights" THEN "No additional insights"
                                  ELSE "Not available"),
              explanation |-> Str("Analysis data was not properly structured.")])]

format_analysis(a) ==
    LET a1 == IF a.t = "dict" THEN a.v ELSE MalformedAnalysis
        a2 == [s \in AllSections |->
                 IF s \in DOMAIN a1 /\ a1[s].t = "dict" THEN a1[s]
                 ELSE IF s = "additional_insights" THEN MissingInsights ELSE MissingSection]
    IN [t |-> "html",
        strong |-> [i \in 1..5 |->
                      ToText(DictGet(a2[SectionOrder[i]].v, "description",
                                     Str(IF i = 5 THEN "No additional insights"
                                         ELSE "Not available")))],
        muted |-> [i \in 1..5 |-> ToText(DictGet(a2[SectionOrder[i]].v, "explanation", Str("")))]]

\* analyze_responses(answers) of src/app.py, reading the answers from the
\* session `sess`.  Returns the value returned, the profile found, the
\* normalized analysis after enrichment, the collaborator calls made and
\* the object normalized_analysis is bound to.
analyze_responses(sess, openai_client, crew, llm) ==
    IF \E i \in 1..4 : MCQuestions[i] \notin DOMAIN sess
    THEN [ret |-> Raise("TypeError"), raw |-> PyNone, normalized |-> PyNone, calls |-> NoCalls,
          object |-> NoObject]
    ELSE
    LET pre_computed_analysis ==
            get_analysis_for_combination(sess["q1"], sess["q2"], sess["q3"], sess["q4"])
        normalized_analysis == normalize_analysis_data(pre_computed_analysis)
        normalized_object ==
            normalize_analysis_object(
                get_analysis_object(sess["q1"], sess["q2"], sess["q3"], sess["q4"]),
                pre_computed_analysis)
        free_response == DictGet(sess, "q5", "")
    IN IF ~Truthy(pre_computed_analysis)
       THEN [ret |-> PyNone, raw |-> pre_computed_analysis, normalized |-> PyNone,
             calls |-> NoCalls, object |-> normalized_object]
       ELSE LET e == enrich(normalized_analysis.v, free_response, openai_client, crew, llm)
            IN [ret |-> format_analysis(Dict(e.ret)), raw |-> pre_computed_analysis,
                normalized |-> Dict(e.ret), calls |-> e.calls, object |-> normalized_object]

-----------------------------------------------------------------------------
(* The choice of the strategy and the query of                              *)
(* get_recommendations_from_bedrock                                         *)

\* Variant that always queries the retrieval service.
always_bedrock(sess) == "bedrock"

\* get_job_recommendations(analysis): the strategy chosen for the session.
get_job_recommendations(sess) ==
    LET q5_response == DictGet(sess, "q5", "")
    IN IF q5_response = "" THEN "dynamo" ELSE "bedrock"

\* `query` before get_recommendations_from_bedrock assigns it.
NoQuery == ""

QueryPrefix == "Find job postings suitable for someone who:"
GenericQuery == "Find entry-level tech jobs suitable for neurodiverse candidates"
NoDescriptionsQuery ==
    "Find tech jobs suitable for neurodiverse candidates with various work preferences"

\* " ".join(texts)
RECURSIVE JoinWithSpace(_)
JoinWithSpace(texts) ==
    IF texts = <<>> THEN ""
    ELSE IF Len(texts) = 1 THEN texts[1]
    ELSE texts[1] \o " " \o JoinWithSpace(Tail(texts))

\* re.search(r'Additional information not relevant|not useful for job
\* recommendations', text, re.IGNORECASE): of the texts an analysis of the
\* model is made of, one contains a match.
NotRelevantDescription == "Additional information not relevant for job matching"
SearchNotRelevant(text) == text = NotRelevantDescription

\* "not relevant" not in d.lower() and "not available" not in d.lower()
IsRelevantDescription(d) == d # NotRelevantDescription /\ d # "Not available"

\* Lines 722-748 of get_recommendations_from_bedrock (src/app.py), the same
\* as the HTML branch of lines 808-829 of src/lambda-approach-2/app.py: the
\* query made from an analysis that is HTML.  (The conditional expression
\* binds weaker than +: with at most four relevant descriptions the text is
\* appended to the prefix without a space.)
QueryFromHtml(html) ==
    LET not_relevant_check ==
            \E i \in 1..5 : SearchNotRelevant(html.strong[i]) \/ SearchNotRelevant(html.muted[i])
        descriptions == html.strong
        relevant_descriptions == SelectSeq(descriptions, IsRelevantDescription)
    IN IF not_relevant_check
       THEN IF relevant_descriptions # <<>>
            THEN IF Len(relevant_descriptions) > 4
                 THEN QueryPrefix \o " " \o JoinWithSpace(SubSeq(relevant_descriptions, 1, 4))
                 ELSE QueryPrefix \o JoinWithSpace(relevant_descriptions)
            ELSE NoDescriptionsQuery
       ELSE QueryPrefix \o " " \o JoinWithSpace(descriptions)

\* Lines 713-751 of get_recommendations_from_bedrock (src/app.py): the query
\* for `analysis`, the value analyze_responses returned.
bedrock_query(a) ==
    IF a.t = "html" THEN QueryFromHtml(a) ELSE GenericQuery

\* str.lower() on the letters of the model's texts, and `needle in text`.
LowerChar(c) ==
    CASE c = "A" -> "a" [] c = "B" -> "b" [] c = "C" -> "c" [] c = "D" -> "d"
      [] c = "E" -> "e" [] c = "F" -> "f" [] c = "G" -> "g" [] c = "H" -> "h"
      [] c = "I" -> "i" [] c = "J" -> "j" [] c = "K" -> "k" [] c = "L" -> "l"
      [] c = "M" -> "m" [] c = "N" -> "n" [] c = "O" -> "o" [] c = "P" -> "p"
      [] c = "Q" -> "q" [] c = "R" -> "r" [] c = "S" -> "s" [] c = "T" -> "t"
      [] c = "U" -> "u" [] c = "V" -> "v" [] c = "W" -> "w" [] c = "X" -> "x"
      [] c = "Y" -> "y" [] c = "Z" -> "z" [] OTHER -> c
RECURSIVE lower(_)
lower(text) ==
    IF Len(text) = 0 THEN ""
    ELSE LowerChar(SubSeq(text, 1, 1)) \o lower(SubSeq(text, 2, Len(text)))
IsSubstring(needle, text) ==
    \E i \in 1..(Len(text) - Len(needle) + 1) : SubSeq(text, i, i + Len(needle) - 1) = needle

\* Lines 835-862 of src/lambda-approach-2/app.py: the query made from an
\* analysis that is a dict, or the exception raised on the way.  The
\* descriptions are appended as the values they are: insight_text.lower()
\* raises AttributeError for a truthy value that is no text, and
\* " ".join(descriptions) raises TypeError when an element is no text.
QueryFromProfile(a) ==
    LET SectionText(section) ==
            IF section \notin DOMAIN a THEN <<>>
            ELSE IF a[section].t = "dict" /\ "description" \in DOMAIN a[section].v
            THEN <<a[section].v["description"]>>
            ELSE IF a[section].t = "str" THEN <<a[section]>>
            ELSE <<>>
        additional_info == a["additional_insights"]
        insight_text == additional_info.v["description"]
        HasInsightText ==
            /\ "additional_insights" \in DOMAIN a
            /\ additional_info.t = "dict"
            /\ "description" \in DOMAIN additional_info.v
        InsightText ==
            IF "additional_insights" \notin DOMAIN a THEN <<>>
            ELSE IF HasInsightText
            THEN IF Truthy(insight_text)
                    /\ ~IsSubstring("no additional insights", lower(insight_text.s))
                 THEN <<insight_text>> ELSE <<>>
            ELSE IF additional_info.t = "str" /\ additional_info.s # ""
            THEN <<additional_info>>
            ELSE <<>>
        main ==
            SectionText("work_style") \o SectionText("environment")
            \o SectionText("interaction_level") \o SectionText("task_preference")
    IN IF HasInsightText /\ Truthy(insight_text) /\ insight_text.t # "str"
       THEN Raise("AttributeError")
       ELSE LET descriptions == main \o InsightText IN
            IF descriptions = <<>> THEN Str(NoDescriptionsQuery)
            ELSE IF \E i \in 1..Len(descriptions) : descriptions[i].t # "str"
            THEN Raise("TypeError")
            ELSE Str(QueryPrefix \o " "
                     \o JoinWithSpace([i \in 1..Len(descriptions) |-> descriptions[i].s]))

\* Lines 802-866 of get_recommendations_from_bedrock
\* (src/lambda-approach-2/app.py): the query for `analysis`, or the
\* exception the try of the function catches.  An analysis that is not HTML
\* takes the JSON branch whatever its type: `section in analysis` is a
\* substring test on a text and a membership test on a list (followed by
\* analysis[section], a TypeError, when it succeeds) and raises TypeError
\* on None, a number or a boolean.
bedrock_query_lambda(a) ==
    IF a.t = "html" THEN Str(QueryFromHtml(a))
    ELSE IF a.t = "dict" THEN QueryFromProfile(a.v)
    ELSE IF a.t = "str"
    THEN IF \E section \in AllSections : IsSubstring(section, a.s)
         THEN Raise("TypeError") ELSE Str(NoDescriptionsQuery)
    ELSE IF a.t = "list"
    THEN IF \E section \in AllSections : \E i \in 1..Len(a.v) : a.v[i] = Str(section)
         THEN Raise("TypeError") ELSE Str(NoDescriptionsQuery)
    ELSE Raise("TypeError")

-----------------------------------------------------------------------------
(* Job postings *)

PyInt(n) == [t |-> "int", n |-> n]

\* Variant without any fallback posting.
no_fallback_recommendations == <<>>

\* get_fallback_recommendations()
get_fallback_recommendations ==
    << [title |-> "Data Quality Analyst", company |-> "Oracle",
        location |-> "Austin, TX (Remote Available)", match_score |-> 95,
        reasoning |-> "Fallback job match for neurodiverse candidates. This role offers a structured environment with clear objectives and minimal interruptions.",
        url |-> "https://careers.oracle.com/jobs"],
       [title |-> "Software Developer - Backend", company |-> "Oracle Cloud Infrastructure",
        location |-> "Seattle, WA (Hybrid)", match_score |-> 92,
        reasoning |-> "Fallback job match for neurodiverse candidates. This role features flexible scheduling with dedicated quiet time for deep work.",
        url |-> "https://careers.oracle.com/jobs"],
       [title |-> "Quality Assurance Engineer", company |-> "Oracle",
        location |-> "Reston, VA", match_score |-> 88,
        reasoning |-> "Fallback job match for neurodiverse candidates. This role provides structured work environment with clear processes.",
        url |-> "https://careers.oracle.com/jobs"] >>

\* Contents of the JobBank table (external data): jobs 1..NumJobs, each a
\* JobPosting-shaped item.  The scores are neither sorted nor distinct.
NumJobs == 11
JobIds == 1..NumJobs
JobScore(i) == 70 + ((i * 7) % 10)
JobItem(i) ==
    [job_id |-> i, title |-> "Job", company |-> "Company", location |-> "Remote",
     match_score |-> JobScore(i), reasoning |-> "Stored match", url |-> "https://jobs.example/job"]
MissingJobId == 9999

\* str.isdigit() and int() on the identifier strings of the model.
IsDigit(s) == s \in {"1", "2", "3"}
ToInt(s) == CASE s = "1" -> 1 [] s = "2" -> 2 [] s = "3" -> 3

\* job_table.get_item(Key={'job_id': job_id}) when the lookups of the
\* identifiers in `failing` raise.  The key attribute has type N
\* (src/create_tables.py), so a string key is rejected.
JobGetItem(job_id, failing) ==
    IF job_id.t # "int" THEN Raise("ValidationException")
    ELSE IF job_id.n \in failing THEN Raise("ClientError")
    ELSE IF job_id.n \in JobIds THEN Dict([Item |-> JobItem(job_id.n)])
    ELSE Dict(EmptyDict)

\* Values of the job list of a template item: a list of identifiers or a
\* string, and json.loads / iteration on the strings of the model.
JobListText == "[2, 1]"
BadJobListText == "2;1"
List(q) == [t |-> "list", v |-> q]
LoadsJobList(text) ==
    IF text = JobListText THEN List(<<PyInt(2), PyInt(1)>>) ELSE Raise("JSONDecodeError")
Chars(text) ==
    CASE text = BadJobListText -> <<Str("2"), Str(";"), Str("1")>>
      [] text = JobListText -> <<Str("["), Str("2"), Str(","), Str(" "), Str("1"), Str("]")>>
      [] OTHER -> <<>>

AllJobs == [i \in 1..NumJobs |-> PyInt(i)]

\* What analysis_table.get_item can do: raise, or return a response with or
\* without an Item; the Item holds recommended_jobs, matching_jobs or neither.
TemplateLists ==
    { List(<<>>), List(<<PyInt(MissingJobId)>>), List(<<PyInt(1), PyInt(2)>>),
      List(<<PyInt(2), PyInt(1)>>), List(<<Str("3"), PyInt(MissingJobId), PyInt(1)>>),
      List(AllJobs), Str(JobListText), Str(BadJobListText), PyInt(5) }
TemplateOutcomes ==
    {Raise("ClientError"), Dict(EmptyDict), Dict([Item |-> EmptyDict])}
    \cup {Dict([Item |-> [recommended_jobs |-> l]]) : l \in TemplateLists}
    \cup {Dict([Item |-> [matching_jobs |-> l]]) : l \in {List(<<>>), List(<<PyInt(3)>>)}}
FailingSets == SUBSET {1, 2}

\* Python truthiness of the job list.
TruthyList(x) ==
    CASE x.t = "list" -> x.v # <<>>
      [] x.t = "str" -> x.s # ""
      [] x.t = "int" -> x.n # 0
      [] OTHER -> FALSE

\* The loop over matching_job_ids: the items found, in list order.
RECURSIVE LookupJobs(_, _, _)
LookupJobs(ids, failing, i) ==
    IF i > Len(ids) THEN <<>>
    ELSE LET job_id == IF ids[i].t = "str" /\ IsDigit(ids[i].s)
                       THEN PyInt(ToInt(ids[i].s)) ELSE ids[i]
             job_response == JobGetItem(job_id, failing)
             rest == LookupJobs(ids, failing, i + 1)
         IN IF job_response.t = "dict" /\ "Item" \in DOMAIN job_response.v
            THEN <<job_response.v["Item"]>> \o rest
            ELSE rest

\* Variant that returns the postings found, even when there are none.
ReturnJobsFound(job_recommendations) == job_recommendations

\* Variant that returns only the first posting found.
FirstJobOrFallback(job_recommendations) ==
    IF job_recommendations = <<>> THEN get_fallback_recommendations
    ELSE <<Head(job_recommendations)>>

\* `if not job_recommendations: return get_fallback_recommendations()`,
\* else `return job_recommendations`.
JobsOrFallback(job_recommendations) ==
    IF job_recommendations = <<>> THEN get_fallback_recommendations
    ELSE job_recommendations

\* get_recommendations_from_dynamo() when the template lookup behaves as
\* `tmpl` and the job lookups of `failing` raise.  Returns the list and the
\* number of job lookups made.
get_recommendations_from_dynamo(tmpl, failing) ==
    IF tmpl.t = "raise" THEN [ret |-> get_fallback_recommendations, job |-> 0]
    ELSE IF "Item" \notin DOMAIN tmpl.v THEN [ret |-> get_fallback_recommendations, job |-> 0]
    ELSE
    LET template == tmpl.v["Item"]
        recommended_jobs ==
            IF "recommended_jobs" \in DOMAIN template
            THEN LET r == template["recommended_jobs"]
                 IN IF r.t = "str"
                    THEN (IF LoadsJobList(r.s).t = "raise" THEN r ELSE LoadsJobList(r.s))
                    ELSE r
            ELSE DictGet(template, "matching_jobs", List(<<>>))
        matching_job_ids ==
            CASE recommended_jobs.t = "list" -> recommended_jobs.v
              [] recommended_jobs.t = "str" -> Chars(recommended_jobs.s)
              [] OTHER -> <<>>
        job_recommendations == LookupJobs(matching_job_ids, failing, 1)
    IN IF ~TruthyList(recommended_jobs) THEN [ret |-> get_fallback_recommendations, job |-> 0]
       ELSE IF recommended_jobs.t \notin {"list", "str"}
       THEN [ret |-> get_fallback_recommendations, job |-> 0]
       ELSE [ret |-> JobsOrFallback(job_recommendations), job |-> Len(matching_job_ids)]

-----------------------------------------------------------------------------
(* JobAnalyzer (src/job_analyzer.py) *)

UriA == "s3://jobs/a.txt"
UriB == "s3://jobs/b.pdf"
UriC == "s3://jobs/c.txt"

\* s3_uri.replace("s3://", "").split("/", 1)
SplitUri(s3_uri) ==
    CASE s3_uri = UriA -> [bucket |-> "jobs", key |-> "a.txt"]
      [] s3_uri = UriB -> [bucket |-> "jobs", key |-> "b.pdf"]
      [] s3_uri = UriC -> [bucket |-> "jobs", key |-> "c.txt"]

\* What the document fetch and the two crews can do for one retrieval
\* result: the fetch raises, the content is too short, the extraction gives
\* no structured data, or the extraction succeeds and the matching crew's
\* output parses to match_info ({} when it cannot be parsed).
MatchInfos ==
    { EmptyDict,
      [match_reasoning |-> Str("M")],
      [match_reasoning |-> Str("M"), match_score |-> PyInt(90)],
      [match_reasoning |-> Str("M"), match_score |-> Str("85")] }
AgentOutcomes ==
    {[t |-> "s3error"], [t |-> "noextract"]}
    \cup {[t |-> "matched", match_info |-> m] : m \in MatchInfos}

\* Variant that rounds the mean up.
final_score_rounded_up(bedrock_score, match_info) ==
    IF "match_score" \in DOMAIN match_info
    THEN (bedrock_score + match_info["match_score"].n + 1) \div 2
    ELSE bedrock_score

\* final_score of retrieve_and_process_content:
\* (bedrock_score + agent_score) // 2 when match_info has a match_score,
\* bedrock_score otherwise.
final_score(bedrock_score, match_info) ==
    IF "match_score" \in DOMAIN match_info
    THEN (bedrock_score + match_info["match_score"].n) \div 2
    ELSE bedrock_score

\* retrieve_and_process_content(s3_uri, bedrock_score) of an analyzer with an
\* S3 client (s3_client = TRUE) or without, when the collaborators behave as
\* `outcome`.  Returns the posting or PyNone.
retrieve_and_process_content(s3_uri, bedrock_score, s3_client, outcome) ==
    IF ~s3_client
    THEN [title |-> "Job from " \o s3_uri, company |-> "Unknown Company",
          location |-> "Unknown Location", match_score |-> bedrock_score,
          reasoning |-> "Unable to access job details without S3 client.", url |-> s3_uri]
    ELSE IF outcome.t # "matched" THEN PyNone
    ELSE
    LET loc == SplitUri(s3_uri)
        job_info == [title |-> Str("Job at " \o s3_uri), company |-> Str("Company")]
        match_info ==
            IF DOMAIN outcome.match_info = {}
            THEN [match_reasoning |->
                      Str("This position matches your preferences with a "
                          \o ToString(bedrock_score) \o "% compatibility score."),
                  match_score |-> PyInt(bedrock_score),
                  key_highlights |-> Str("Job details extracted successfully")]
            ELSE outcome.match_info
    IN IF "match_score" \in DOMAIN match_info /\ match_info["match_score"].t # "int"
       THEN PyNone   \* bedrock_score + agent_score raises TypeError
       ELSE
       LET final == final_score(bedrock_score, match_info)
       IN [title |-> DictGet(job_info, "title", Str("Unknown Position")).s,
           company |-> DictGet(job_info, "company", Str("Unknown Company")).s,
           location |-> DictGet(job_info, "location", Str("Unknown Location")).s,
           match_score |-> final,
           reasoning |-> DictGet(match_info, "match_reasoning",
                                 Str("This position matches your preferences with a "
                                     \o ToString(final) \o "% compatibility score.")).s,
           url |-> "https://console.aws.amazon.com/s3/object/" \o loc.bucket \o "/" \o loc.key,
           bedrock_score |-> bedrock_score,
           agent_score |-> DictGet(match_info, "match_score", PyInt(0)).n]

\* list.sort(key=match_score, reverse=True): a stable sort, so an element is
\* placed after the elements whose score is not lower.
RECURSIVE InsertByScore(_, _)
InsertByScore(sorted, x) ==
    IF sorted = <<>> THEN <<x>>
    ELSE IF Head(sorted).match_score >= x.match_score
         THEN <<Head(sorted)>> \o InsertByScore(Tail(sorted), x)
         ELSE <<x>> \o sorted

RECURSIVE SortByScoreDesc(_)
SortByScoreDesc(q) ==
    IF q = <<>> THEN <<>>
    ELSE InsertByScore(SortByScoreDesc(SubSeq(q, 1, Len(q) - 1)), q[Len(q)])

\* Number of retrieval results whose agent outcome is chosen independently;
\* results beyond it reuse the outcomes cyclically.
MaxResults == 2
OutcomeAt(outcomes, i) == outcomes[((i - 1) % MaxResults) + 1]
ResultsWithOwnOutcome(retrieval) ==
    IF Len(retrieval) < MaxResults THEN Len(retrieval) ELSE MaxResults

\* The score of a retrieval result in hundredths (result['score'] * 100).
ResultScore(result) ==
    IF "score" \in DOMAIN result THEN result["score"]
    ELSE IF "metadata_score" \in DOMAIN result THEN result["metadata_score"]
    ELSE NoAttr

\* The loop of process_job_results, before the sort.
RECURSIVE ProcessLoop(_, _, _, _, _)
ProcessLoop(retrieval, bedrock_score, s3_client, outcomes, i) ==
    IF i > Len(retrieval) THEN <<>>
    ELSE LET result == retrieval[i]
             rest == ProcessLoop(retrieval, bedrock_score, s3_client, outcomes, i + 1)
         IN IF "uri" \notin DOMAIN result THEN rest   \* KeyError, caught
            ELSE LET current_bedrock_score ==
                         IF bedrock_score.t = "int" THEN bedrock_score.n
                         ELSE IF ResultScore(result).t = "int" THEN ResultScore(result).n
                         ELSE 75
                     job_info == retrieve_and_process_content(
                                     result["uri"], current_bedrock_score, s3_client,
                                     OutcomeAt(outcomes, i))
                 IN IF job_info = PyNone THEN rest ELSE <<job_info>> \o rest

\* Variant whose sort puts equal scores in reverse order.
RECURSIVE Reversed(_)
Reversed(q) == IF q = <<>> THEN <<>> ELSE Append(Reversed(Tail(q)), Head(q))
process_job_results_unstable(retrieval, bedrock_score, s3_client, outcomes) ==
    SortByScoreDesc(Reversed(ProcessLoop(retrieval, bedrock_score, s3_client, outcomes, 1)))

\* process_job_results(retrieval_results, bedrock_score)
process_job_results(retrieval, bedrock_score, s3_client, outcomes) ==
    SortByScoreDesc(ProcessLoop(retrieval, bedrock_score, s3_client, outcomes, 1))

-----------------------------------------------------------------------------
(* The retrieval service *)

\* Length of the retrieval answer that exceeds the requested 10 results.
LongLen == 11

RetrievalLists ==
    { <<>>,
      <<[uri |-> UriA, score |-> PyInt(50)], [uri |-> UriB, score |-> PyInt(75)]>>,
      <<[uri |-> UriC, metadata_score |-> PyInt(25)], [score |-> PyInt(25)]>>,
      <<[uri |-> UriC]>>,
      [i \in 1..LongLen |-> [uri |-> UriA, score |-> PyInt(75)]] }

\* What bedrock.retrieve can do in one attempt.
RetrieveOutcomes ==
    {Raise("resuming after being auto-paused"), Raise("AccessDenied")}
    \cup {List(l) : l \in RetrievalLists}

RECURSIVE SumScores(_, _)
SumScores(results, i) ==
    IF i > Len(results) THEN 0
    ELSE (IF ResultScore(results[i]).t = "int" THEN ResultScore(results[i]).n ELSE 0)
         + SumScores(results, i + 1)

\* bedrock_relevancy_percentage for a successful attempt: int(avg_score * 100)
\* of the scores present, 50 when results carry no score, 0 for no results.
RelevancyPercentage(results) ==
    LET scored == {i \in 1..Len(results) : ResultScore(results[i]).t = "int"}
    IN IF results = <<>> THEN 0
       ELSE IF scored = {} THEN 50
       ELSE SumScores(results, 1) \div Cardinality(scored)

\* Variant with one attempt more.
one_retry_more == 3 + 1

max_retries == 3

-----------------------------------------------------------------------------
(* Raw records for the pure-function specification of normalize_analysis_data *)

NoKey == [t |-> "nokey"]

NestedValues ==
    { Dict([description |-> Str("Y"), explanation |-> Str("Z")]),
      Dict([description |-> Str("Y")]),
      Dict([explanation |-> Str("Z")]),
      Dict(EmptyDict) }

JsonObjectTexts == {JsonBoth, JsonDescOnly, JsonExpOnly, JsonEmptyObject}
OtherTexts == {JsonNullDesc, JsonNumber, JsonList, JsonNull, NotJson}

\* Every key of a raw record is either absent (NoKey) or holds a value.
RawOptions ==
    [ work_style_description : {NoKey, Str("X")},
      work_style_explanation : {NoKey, Str("W")},
      work_style : {NoKey} \cup NestedValues
                   \cup {Str(s) : s \in JsonObjectTexts \cup OtherTexts},
      environment_description : {NoKey, Str("X")},
      environment : {NoKey, Dict([description |-> Str("Y"), explanation |-> Str("Z")])},
      interaction_level : {NoKey, Str(JsonBoth)},
      task_preference : {NoKey, Dict([description |-> Str("Y"), explanation |-> Str("Z")])},
      additional_insights : {NoKey,
                             Dict([description |-> Str("Y"), explanation |-> Str("Z")]),
                             Dict([explanation |-> Str("Z")]),
                             Dict(EmptyDict),
                             Str(JsonBoth), Str(JsonNumber), Str(NotJson)} ]

MkRaw(o) == Dict([k \in {key \in DOMAIN o : o[key].t # "nokey"} |-> o[k]])

RawRecords == {MkRaw(o) : o \in RawOptions} \cup {PyNone}

Pending == [t |-> "pending"]
Unbound == -1

\* No handler instance of results_api.py runs.
NoInstances == <<>>

\* State of the web application before any request.
FlaskStart ==
    /\ pc = "idle"
    /\ analysis = Pending
    /\ recommendations = <<>>
    /\ response = "none"
    /\ assessments = <<>>
    /\ calls = NoCalls
    /\ attempt = 0
    /\ retrieval_results = <<>>
    /\ bedrock_pct = Unbound
    /\ dynamo = Pending
    /\ evaluation_result = Pending
    /\ templates = NotWritten
    /\ request_form = Pending
    /\ submissions = 0
    /\ query = NoQuery
    /\ instances = NoInstances

\* The pure-function specification of normalize_analysis_data: Init draws
\* the raw record and the action applies the function.
InitNormalize ==
    /\ FlaskStart
    /\ session = EmptyDict
    /\ openai_api_key = FALSE
    /\ collaborators = Pending
    /\ raw \in RawRecords
    /\ normalized = Pending

\* A call normalize_analysis_data(raw).
NormalizeRecord ==
    /\ pc = "idle"
    /\ normalized = Pending
    /\ normalized' = normalize_analysis_data(raw)
    /\ pc' = "normalized"
    /\ UNCHANGED <<session, analysis, recommendations, response, assessments,
                   openai_api_key, instances, calls, attempt, retrieval_results, bedrock_pct, raw,
                   dynamo, collaborators, evaluation_result,
                   templates, request_form, submissions, query>>

NextNormalize == NormalizeRecord

SpecNormalize == InitNormalize /\ [][NextNormalize]_vars

-----------------------------------------------------------------------------
(* The specification of the enrichment step: Init draws the free-text       *)
(* answer, a normalized analysis, whether an OpenAI client exists and the   *)
(* behaviour of the crew and of the LLM; each action is one call.           *)

\* Normalized analyses handed to the enrichment, with different
\* additional_insights.
EnrichRaws ==
    { Dict([work_style_description |-> Str("X")]),
      Dict([work_style |-> Str(JsonBoth), additional_insights |-> Str(NotJson)]),
      Dict([environment |-> Dict([description |-> Str("Y"), explanation |-> Str("Z")]),
            additional_insights |-> Dict([description |-> Str("Y"), explanation |-> Str("Z")])]),
      analysis_templates["AAAA"] }
NormalizedAnalyses == {normalize_analysis_data(r) : r \in EnrichRaws}

InitEvaluate ==
    /\ FlaskStart
    /\ \E q5 \in FreeTexts : session = [k \in {"q5"} |-> q5]
    /\ openai_api_key \in BOOLEAN
    /\ collaborators \in [crew : CrewOutcomes, llm : LlmOutcomes]
    /\ raw = PyNone
    /\ normalized \in NormalizedAnalyses

\* A call evaluate_response(q5).
EvaluateResponse ==
    /\ pc = "idle"
    /\ \E r \in {evaluate_response(session["q5"], collaborators.crew)} :
          /\ evaluation_result' = r.evaluation
          /\ calls' = [NoCalls EXCEPT !.evaluate = 1, !.kickoff = r.kickoff]
    /\ pc' = "evaluated"
    /\ UNCHANGED <<session, analysis, recommendations, response, assessments,
                   openai_api_key, instances, attempt, retrieval_results, bedrock_pct, raw,
                   normalized, dynamo, collaborators, templates, request_form, submissions, query>>

\* The evaluation computed inside get_additional_insights, if any.
EvaluationOf(free_response, crew) ==
    IF IsBlank(free_response) THEN Pending
    ELSE evaluate_response(free_response, crew).evaluation

\* A call get_additional_insights(q5, normalized) of a ResponseEvaluator.
EvaluatorInsights ==
    /\ pc = "idle"
    /\ \E r \in {get_additional_insights(session["q5"], normalized.v, openai_api_key,
                                         collaborators.crew, collaborators.llm)} :
          /\ analysis' = IF IsRaise(r.ret) THEN r.ret ELSE Dict(r.ret)
          /\ calls' = r.calls
    /\ evaluation_result' = EvaluationOf(session["q5"], collaborators.crew)
    /\ pc' = "insights"
    /\ UNCHANGED <<session, recommendations, response, assessments, openai_api_key, instances,
                   attempt, retrieval_results, bedrock_pct, raw, normalized, dynamo,
                   collaborators, templates, request_form, submissions, query>>

\* The enrichment block of analyze_responses on the normalized analysis.
EnrichRecord ==
    /\ pc = "idle"
    /\ \E r \in {enrich(normalized.v, session["q5"], openai_api_key,
                        collaborators.crew, collaborators.llm)} :
          /\ analysis' = Dict(r.ret)
          /\ calls' = r.calls
    /\ evaluation_result' = EvaluationOf(session["q5"], collaborators.crew)
    /\ pc' = "enriched"
    /\ UNCHANGED <<session, recommendations, response, assessments, openai_api_key, instances,
                   attempt, retrieval_results, bedrock_pct, raw, normalized, dynamo,
                   collaborators, templates, request_form, submissions, query>>

\* analyze_responses from the enrichment block on, followed by the query
\* construction of get_recommendations_from_bedrock, for an answer with
\* which get_job_recommendations takes that strategy.
EnrichAndQuery ==
    /\ pc = "idle"
    /\ get_job_recommendations(session) = "bedrock"
    /\ \E r \in {enrich(normalized.v, session["q5"], openai_api_key,
                        collaborators.crew, collaborators.llm)} :
          /\ analysis' = Dict(r.ret)
          /\ calls' = r.calls
          /\ query' = bedrock_query(format_analysis(Dict(r.ret)))
    /\ evaluation_result' = EvaluationOf(session["q5"], collaborators.crew)
    /\ pc' = "queried"
    /\ UNCHANGED <<session, recommendations, response, assessments, openai_api_key, instances,
                   attempt, retrieval_results, bedrock_pct, raw, normalized, dynamo,
                   collaborators, templates, request_form, submissions>>

NextEvaluate ==
    \/ EvaluateResponse
    \/ EvaluatorInsights
    \/ EnrichRecord
    \/ EnrichAndQuery

SpecEvaluate == InitEvaluate /\ [][NextEvaluate]_vars

-----------------------------------------------------------------------------
(* The profile lookup as a function of the four answers: Init draws the     *)
(* answers, also strings that are no option letter, and the actions apply   *)
(* get_analysis_for_combination and analyze_responses.                      *)

ResolveLetters == {"A", "B", "C", "Z", "", "AB"}
ResolveSessions ==
    {[k \in AllQuestions |-> IF k = "q5" THEN "" ELSE f[k]] :
        f \in [{"q1", "q2", "q3", "q4"} -> ResolveLetters]}

InitResolve ==
    /\ FlaskStart
    /\ session \in ResolveSessions
    /\ openai_api_key = FALSE
    /\ collaborators = Pending
    /\ raw = PyNone
    /\ normalized = Pending

\* The code of the answers held by the session: q1 + q2 + q3 + q4.
SessionCode == session["q1"] \o session["q2"] \o session["q3"] \o session["q4"]

\* A call get_analysis_for_combination(q1, q2, q3, q4).
Resolve ==
    /\ pc = "idle"
    /\ raw' = get_analysis_for_combination(session["q1"], session["q2"],
                                            session["q3"], session["q4"])
    /\ pc' = "resolved"
    /\ UNCHANGED <<session, analysis, recommendations, response, assessments,
                   openai_api_key, instances, calls, attempt, retrieval_results, bedrock_pct,
                   normalized, dynamo, collaborators, evaluation_result, templates,
                   request_form, submissions, query>>

\* A call analyze_responses(answers) of src/app.py with the session's answers.
AnalyzeResponses ==
    /\ pc = "idle"
    /\ \E r \in {analyze_responses(session, openai_api_key, Raise("Exception"),
                                     Raise("APIError"))} :
          /\ analysis' = r.ret
          /\ raw' = r.raw
          /\ normalized' = r.normalized
          /\ calls' = r.calls
          /\ templates' = AssignThrough(templates, r.object, r.normalized)
    /\ pc' = "analyzed"
    /\ UNCHANGED <<session, recommendations, response, assessments, openai_api_key, instances,
                   attempt, retrieval_results, bedrock_pct, dynamo, collaborators,
                   evaluation_result, request_form, submissions, query>>

NextResolve ==
    \/ Resolve
    \/ AnalyzeResponses

SpecResolve == InitResolve /\ [][NextResolve]_vars

-----------------------------------------------------------------------------
(* The Flask application (src/app.py) *)

\* Number of Assessment rows after which no further result page is requested.
MaxAssessments == 2

\* Submitted forms: every field is absent (NoKey) or holds a string.  The
\* complete forms give every required answer (q1 may hold a letter that is no
\* option of the question); the incomplete forms lack a required answer.
CompleteFormOptions ==
    [ q1 : {Str("A"), Str("Z")},
      q2 : {Str("B")},
      q3 : {Str("C")},
      q4 : {Str("A")},
      q5 : {NoKey} \cup {Str(x) : x \in {EmptyText, BlankText, LongText}} ]
IncompleteFormOptions ==
    [ q1 : {NoKey}, q2 : {Str("B")}, q3 : {Str("C")}, q4 : {Str("A")}, q5 : {Str(LongText)} ]
    \cup [ q1 : {Str("A")}, q2 : {Str("B")}, q3 : {Str("C")}, q4 : {NoKey}, q5 : {NoKey} ]
    \cup [ q1 : {NoKey}, q2 : {NoKey}, q3 : {NoKey}, q4 : {NoKey}, q5 : {NoKey} ]
FormOptions == CompleteFormOptions \cup IncompleteFormOptions
Forms == {[k \in {key \in DOMAIN o : o[key].t # "nokey"} |-> o[k].s] : o \in FormOptions}

Init ==
    /\ FlaskStart
    /\ session = EmptyDict
    /\ openai_api_key = TRUE
    /\ collaborators = Pending
    /\ raw = PyNone
    /\ normalized = Pending

requestLocals == <<analysis, recommendations, calls, attempt, retrieval_results,
                   bedrock_pct, raw, normalized, dynamo, query>>

\* Every request starts with fresh locals.
FreshLocals ==
    /\ analysis' = Pending
    /\ recommendations' = <<>>
    /\ calls' = NoCalls
    /\ attempt' = 0
    /\ retrieval_results' = <<>>
    /\ bedrock_pct' = Unbound
    /\ raw' = PyNone
    /\ normalized' = Pending
    /\ dynamo' = Pending
    /\ query' = NoQuery

\* GET / : welcome()
Welcome ==
    /\ pc = "idle"
    /\ session' = EmptyDict
    /\ response' = "200:welcome"
    /\ request_form' = Pending
    /\ FreshLocals
    /\ UNCHANGED <<pc, assessments, openai_api_key, instances, collaborators, evaluation_result,
                   templates, submissions>>

\* Number of completed submissions after which no further one is made.
MaxSubmissions == 1

\* Variant that requires no answer.
required_none == {}

\* required_questions of submit_questionnaire: every question but the
\* optional q5.
required_questions == {"q1", "q2", "q3", "q4"}

\* POST /submit_questionnaire : submit_questionnaire()
SubmitQuestionnaire(form) ==
    /\ pc = "idle"
    /\ IF \E q \in required_questions : q \notin DOMAIN form
       THEN /\ response' = "redirect:questionnaire"
            /\ UNCHANGED <<session, submissions>>
       ELSE /\ submissions < MaxSubmissions
            /\ session' = [k \in DOMAIN session \cup AllQuestions |->
                             IF k \in AllQuestions THEN DictGet(form, k, "") ELSE session[k]]
            /\ submissions' = submissions + 1
            /\ response' = "redirect:results"
    /\ request_form' = form
    /\ FreshLocals
    /\ UNCHANGED <<pc, assessments, openai_api_key, instances, collaborators, evaluation_result,
                   templates>>

\* Behaviours of the crew and of the LLM within a request of the web
\* application: the crew raises or answers with a verdict, the LLM raises or
\* answers with the object asked for.  (The other behaviours are explored in
\* SpecEvaluate.)
RequestCrews ==
    {Raise("Exception")} \cup
    {o \in CrewOutcomes : o.t = "crewoutput" /\ o.raw_output.t = "str"
                          /\ o.text \in {UsefulText, NotUsefulText}}
RequestLlms == {Raise("APIError"), Str(JsonBoth)}

\* next(opt[1] for opt in q["options"] if opt[0] == answer_key) of results():
\* the option's text, or StopIteration for a letter that is not an option.
AnswerText(q, answer_key) ==
    IF answer_key \in Options[q] THEN Str(q \o ":" \o answer_key) ELSE Raise("StopIteration")

\* GET /results, lines 176-215 of results(): the session check, the answer
\* texts (next() without default raises StopIteration for a letter that is
\* not an option) and analyze_responses.
ResultsAnalyze ==
    /\ pc = "idle"
    /\ Len(assessments) < MaxAssessments
    /\ IF \E k \in AllQuestions : k \notin DOMAIN session
       THEN /\ response' = "redirect:questionnaire"
            /\ FreshLocals
            /\ UNCHANGED <<pc, templates>>
       ELSE IF \E i \in 1..4 : AnswerText(MCQuestions[i], session[MCQuestions[i]]).t = "raise"
       THEN /\ response' = "500"
            /\ FreshLocals
            /\ UNCHANGED <<pc, templates>>
       ELSE \E crew \in RequestCrews, llm \in RequestLlms :
              \E r \in {analyze_responses(session, openai_api_key, crew, llm)} :
                 /\ analysis' = r.ret
                 /\ raw' = r.raw
                 /\ normalized' = r.normalized
                 /\ calls' = r.calls
                 /\ templates' = AssignThrough(templates, r.object, r.normalized)
                 /\ recommendations' = <<>>
                 /\ attempt' = 0
                 /\ retrieval_results' = <<>>
                 /\ bedrock_pct' = Unbound
                 /\ dynamo' = Pending
                 /\ query' = NoQuery
                 /\ response' = "none"
                 /\ pc' = "recommend"
    /\ request_form' = Pending
    /\ UNCHANGED <<session, assessments, openai_api_key, instances, collaborators, evaluation_result,
                   submissions>>

\* get_job_recommendations with an empty q5: get_recommendations_from_dynamo.
RecommendFromDynamo ==
    /\ pc = "recommend"
    /\ get_job_recommendations(session) = "dynamo"
    /\ \E tmpl \in TemplateOutcomes, failing \in FailingSets :
         \E r \in {get_recommendations_from_dynamo(tmpl, failing)} :
            /\ recommendations' = r.ret
            /\ calls' = [calls EXCEPT !.template = @ + 1, !.job = @ + r.job]
            /\ dynamo' = [template |-> tmpl, failing |-> failing]
    /\ pc' = "store"
    /\ UNCHANGED <<session, analysis, response, assessments, openai_api_key, instances, attempt,
                   retrieval_results, bedrock_pct, raw, normalized, collaborators, evaluation_result,
                   templates, request_form, submissions, query>>

\* get_job_recommendations with a non-empty q5: get_recommendations_from_bedrock
\* up to the retry loop (lines 692-757).
BedrockQuery ==
    /\ pc = "recommend"
    /\ get_job_recommendations(session) = "bedrock"
    /\ query' = bedrock_query(analysis)
    /\ attempt' = 0
    /\ retrieval_results' = <<>>
    /\ bedrock_pct' = Unbound
    /\ pc' = "retrieve"
    /\ UNCHANGED <<session, analysis, recommendations, response, assessments,
                   openai_api_key, instances, calls, raw, normalized, dynamo, collaborators,
                   evaluation_result, templates, request_form, submissions>>

\* The same of src/lambda-approach-2/app.py (lines 782-870), whose analysis
\* is the profile dict.  An exception raised while the query is built is
\* caught by the try of the function (lines 1055-1082), which returns the
\* fallback list without calling the retrieval service.
LambdaBedrockQuery ==
    /\ pc = "recommend"
    /\ get_job_recommendations(session) = "bedrock"
    /\ \E q \in {bedrock_query_lambda(analysis)} :
         IF q.t = "raise"
         THEN /\ query' = QueryPrefix
              /\ recommendations' = get_fallback_recommendations
              /\ pc' = "store"
              /\ UNCHANGED <<attempt, retrieval_results, bedrock_pct>>
         ELSE /\ query' = q.s
              /\ attempt' = 0
              /\ retrieval_results' = <<>>
              /\ bedrock_pct' = Unbound
              /\ pc' = "retrieve"
              /\ UNCHANGED recommendations
    /\ UNCHANGED <<session, analysis, response, assessments,
                   openai_api_key, instances, calls, raw, normalized, dynamo, collaborators,
                   evaluation_result, templates, request_form, submissions>>

\* One iteration of the retry loop (lines 759-822).
BedrockRetrieve ==
    /\ pc = "retrieve"
    /\ attempt < max_retries
    /\ \E outcome \in RetrieveOutcomes :
         IF outcome.t = "list"
         THEN /\ retrieval_results' = outcome.v
              /\ bedrock_pct' = RelevancyPercentage(outcome.v)
              /\ attempt' = attempt
              /\ pc' = "process"
         ELSE /\ attempt' = attempt + 1
              /\ pc' = IF attempt < max_retries - 1 THEN "retrieve" ELSE "process"
              /\ UNCHANGED <<retrieval_results, bedrock_pct, query>>
    /\ calls' = [calls EXCEPT !.retrieve = @ + 1]
    /\ UNCHANGED <<session, analysis, recommendations, response, assessments,
                   openai_api_key, instances, raw, normalized, dynamo, collaborators, evaluation_result,
                   templates, request_form, submissions, query>>

\* Lines 838-938: the fallback for no results, process_job_results and the
\* fallback for no recommendations.
BedrockProcess ==
    /\ pc = "process"
    /\ \E outcomes \in [1..ResultsWithOwnOutcome(retrieval_results) -> AgentOutcomes] :
         LET job_recommendations ==
                 IF retrieval_results = <<>> \/ bedrock_pct = Unbound THEN <<>>
                 ELSE process_job_results(retrieval_results, PyInt(bedrock_pct), TRUE, outcomes)
         IN recommendations' = IF job_recommendations = <<>>
                               THEN get_fallback_recommendations
                               ELSE job_recommendations
    /\ pc' = "store"
    /\ UNCHANGED <<session, analysis, response, assessments, openai_api_key, instances, calls,
                   attempt, retrieval_results, bedrock_pct, raw, normalized, dynamo,
                   collaborators, evaluation_result,
                   templates, request_form, submissions, query>>

\* Lines 218-251 of results(): the Assessment row (the commit may raise, which
\* is logged) and the rendered page.
ResultsStore ==
    /\ pc = "store"
    /\ \E committed \in BOOLEAN :
         assessments' =
             IF committed
             THEN Append(assessments,
                         [q1_answer |-> DictGet(session, "q1", ""),
                          q2_answer |-> DictGet(session, "q2", ""),
                          q3_answer |-> DictGet(session, "q3", ""),
                          q4_answer |-> DictGet(session, "q4", ""),
                          q5_answer |-> DictGet(session, "q5", ""),
                          analysis |-> analysis])
             ELSE assessments
    /\ response' = "200:results"
    /\ pc' = "responded"
    /\ UNCHANGED <<session, openai_api_key, instances, requestLocals, collaborators, evaluation_result,
                   templates, request_form, submissions>>

\* The request is over: its locals are gone.
ResultsReturn ==
    /\ pc = "responded"
    /\ pc' = "idle"
    /\ FreshLocals
    /\ UNCHANGED <<session, response, assessments, openai_api_key, instances, collaborators,
                   evaluation_result, templates, request_form, submissions>>

Next ==
    \/ Welcome
    \/ \E form \in Forms : SubmitQuestionnaire(form)
    \/ ResultsAnalyze
    \/ RecommendFromDynamo
    \/ BedrockQuery
    \/ BedrockRetrieve
    \/ BedrockProcess
    \/ ResultsStore
    \/ ResultsReturn

Spec == Init /\ [][Next]_vars

-----------------------------------------------------------------------------
(* The Lambda handler of src/lambda-approach-2/app.py: one invocation of     *)
(* process_questionnaire_answers(answers).  Init draws the answers of the    *)
(* event; `session` holds the local formatted_answers, `assessments` the     *)
(* items of the assessments table.  normalize_analysis_data, the enrichment, *)
(* get_job_recommendations and the two recommendation strategies of this     *)
(* file are copies of those of src/app.py that read `answers` in place of    *)
(* the Flask session.                                                        *)

InitLambda ==
    /\ pc = "idle"
    /\ request_form \in Forms
    /\ session = EmptyDict
    /\ analysis = Pending
    /\ recommendations = <<>>
    /\ response = "none"
    /\ assessments = <<>>
    /\ openai_api_key = TRUE
    /\ calls = NoCalls
    /\ attempt = 0
    /\ retrieval_results = <<>>
    /\ bedrock_pct = Unbound
    /\ raw = PyNone
    /\ normalized = Pending
    /\ dynamo = Pending
    /\ collaborators = Pending
    /\ evaluation_result = Pending
    /\ templates = NotWritten
    /\ submissions = 0
    /\ query = NoQuery
    /\ instances = NoInstances

\* The default structure returned when no pre-computed analysis is found.
DefaultAnalysis ==
    [work_style |->
        Dict([description |-> Str("Adaptable working style"),
              explanation |-> Str("You appear to have a flexible approach to work scheduling.")]),
     environment |->
        Dict([description |-> Str("Versatile environment preference"),
              explanation |-> Str("You can work in various workspace settings.")]),
     interaction_level |->
        Dict([description |-> Str("Balanced interaction style"),
              explanation |-> Str("You can work both independently and collaboratively.")]),
     task_preference |->
        Dict([description |-> Str("Diverse task orientation"),
              explanation |-> Str("You can handle both detail-oriented and creative tasks.")]),
     additional_insights |->
        Dict([description |-> Str("No additional insights"), explanation |-> Str("")])]

\* What analysis_templates.get_item answers for a template_id: it raises,
\* it has no Item, or (for a code of the table) it has the code's item, with
\* or without the attribute recommended_jobs; the attribute holds a list,
\* the JSON text of a list or a text that is not JSON.  One item holds a
\* NULL where a description is expected.
TemplateItems(template_id) ==
    {Raise("ClientError"), PyNone}
    \cup (IF template_id \in TemplateKeys
          THEN LET item == analysis_templates[template_id]
               IN {item,
                   Dict([item.v EXCEPT !["work_style"] =
                            Dict([@.v EXCEPT !["description"] = PyNone])])}
                  \cup {Dict([k \in DOMAIN item.v \cup {"recommended_jobs"} |->
                                 IF k = "recommended_jobs" THEN jobs ELSE item.v[k]]) :
                           jobs \in {List(<<>>), List(<<PyInt(2), PyInt(1)>>),
                                     Str(JobListText), Str(BadJobListText)}}
          ELSE {})

\* The inner get_analysis_for_combination of analyze_responses: the item,
\* whose recommended_jobs is replaced by json.loads of it, or None when
\* there is no item, the lookup raised or json.loads raised (TypeError for
\* a value that is no text, JSONDecodeError for a text that is not JSON).
get_item_for_combination(item) ==
    IF item.t = "raise" THEN PyNone
    ELSE IF Truthy(item) /\ "recommended_jobs" \in DOMAIN item.v
    THEN LET jobs == item.v["recommended_jobs"]
             loaded == IF jobs.t = "str" THEN LoadsJobList(jobs.s) ELSE Raise("TypeError")
         IN IF loaded.t = "raise" THEN PyNone
            ELSE Dict([item.v EXCEPT !["recommended_jobs"] = loaded])
    ELSE item

\* analyze_responses(answers) of src/lambda-approach-2/app.py when the
\* template lookup answers `item`.
analyze_responses_lambda(answers, openai_client, item, crew, llm) ==
    LET pre_computed_analysis == get_item_for_combination(item)
        normalized_analysis == normalize_analysis_data(pre_computed_analysis)
        free_response == DictGet(answers, "q5", "")
    IN IF ~Truthy(pre_computed_analysis)
       THEN [ret |-> Dict(DefaultAnalysis), raw |-> pre_computed_analysis,
             normalized |-> PyNone, calls |-> [NoCalls EXCEPT !.template = 1]]
       ELSE LET e == enrich(normalized_analysis.v, free_response, openai_client, crew, llm)
            IN [ret |-> Dict(e.ret), raw |-> pre_computed_analysis,
                normalized |-> Dict(e.ret), calls |-> [e.calls EXCEPT !.template = 1]]

\* Lines 118-164: the check of the required answers (400 when one is
\* missing) and formatted_answers.
ProcessValidate ==
    /\ pc = "idle"
    /\ IF \E q \in required_questions : q \notin DOMAIN request_form
       THEN /\ response' = "400"
            /\ pc' = "responded"
            /\ UNCHANGED <<session, submissions>>
       ELSE /\ session' = [k \in DOMAIN request_form \cap AllQuestions |-> request_form[k]]
            /\ submissions' = submissions + 1
            /\ pc' = "analyze"
            /\ UNCHANGED response
    /\ UNCHANGED <<analysis, recommendations, assessments, openai_api_key, instances, calls, attempt,
                   retrieval_results, bedrock_pct, raw, normalized, dynamo, collaborators,
                   evaluation_result, templates, request_form, query>>

\* Lines 166-176: analyze_responses(formatted_answers); the result is the
\* profile.
ProcessAnalyze ==
    /\ pc = "analyze"
    /\ \E item \in TemplateItems(SessionCode), crew \in RequestCrews, llm \in RequestLlms :
         \E r \in {analyze_responses_lambda(session, openai_api_key, item, crew, llm)} :
            /\ analysis' = r.ret
            /\ raw' = r.raw
            /\ normalized' = r.normalized
            /\ calls' = r.calls
    /\ pc' = "recommend"
    /\ UNCHANGED <<session, recommendations, response, assessments, openai_api_key, instances,
                   attempt, retrieval_results, bedrock_pct, dynamo, collaborators,
                   evaluation_result, templates, request_form, submissions, query>>

\* json.dumps(recommendations): boto3 gives the numbers of an item read from
\* DynamoDB as Decimal, which json.dumps rejects with TypeError.  The
\* postings get_recommendations_from_dynamo appends are JobBank items as
\* read (they carry job_id); the fallback list and the postings made from
\* retrieval results hold plain Python numbers.
IsJsonSerializable(recs) == \A i \in 1..Len(recs) : "job_id" \notin DOMAIN recs[i]

\* Lines 181-207 and the handler's except (lines 263-275): the item of the
\* assessments table and the response.  json.dumps(recommendations) is
\* evaluated inside the try before put_item is called: when it raises,
\* nothing is put and the error is logged; put_item itself may raise, which
\* is logged as well.  The json.dumps of the response body is outside the
\* try: when it raises, lambda_handler answers 500.
ProcessStore ==
    /\ pc = "store"
    /\ IF IsJsonSerializable(recommendations)
       THEN /\ \E stored \in BOOLEAN :
                 assessments' =
                     IF stored
                     THEN Append(assessments,
                                 [answers |-> session, profile |-> analysis,
                                  recommendations |-> recommendations])
                     ELSE assessments
            /\ response' = "200"
       ELSE /\ assessments' = assessments
            /\ response' = "500"
    /\ pc' = "responded"
    /\ UNCHANGED <<session, openai_api_key, instances, requestLocals, collaborators, evaluation_result,
                   templates, request_form, submissions>>

NextLambda ==
    \/ ProcessValidate
    \/ ProcessAnalyze
    \/ RecommendFromDynamo
    \/ LambdaBedrockQuery
    \/ BedrockRetrieve
    \/ BedrockProcess
    \/ ProcessStore

SpecLambda == InitLambda /\ [][NextLambda]_vars

-----------------------------------------------------------------------------
(* The score of a posting as a function of the retrieval-relevance score    *)
(* and of what the agents answer: Init draws them and the action applies    *)
(* retrieve_and_process_content.                                            *)

\* Largest percentage.
MaxPercent == 100

ScoreMatchInfos ==
    MatchInfos \cup {[match_reasoning |-> Str("M"), match_score |-> PyInt(n)] : n \in 0..MaxPercent}
ScoreOutcomes ==
    {[t |-> "s3error"], [t |-> "noextract"]}
    \cup {[t |-> "matched", match_info |-> mi] : mi \in ScoreMatchInfos}

InitScore ==
    /\ FlaskStart
    /\ session = EmptyDict
    /\ openai_api_key = TRUE
    /\ raw = PyNone
    /\ normalized = Pending
    /\ collaborators \in [uri : {UriA, UriB}, bedrock_score : 0..MaxPercent,
                           s3_client : BOOLEAN, agent : ScoreOutcomes]

\* A call retrieve_and_process_content(s3_uri, bedrock_score); the posting
\* returned, if any, is kept in `recommendations`.
ScorePosting ==
    /\ pc = "idle"
    /\ \E job_info \in {retrieve_and_process_content(collaborators.uri,
                                                       collaborators.bedrock_score,
                                                       collaborators.s3_client,
                                                       collaborators.agent)} :
          recommendations' = IF job_info = PyNone THEN <<>> ELSE <<job_info>>
    /\ pc' = "scored"
    /\ UNCHANGED <<session, analysis, response, assessments, openai_api_key, instances, calls,
                   attempt, retrieval_results, bedrock_pct, raw, normalized, dynamo,
                   collaborators, evaluation_result, templates, request_form, submissions, query>>

NextScore == ScorePosting

SpecScore == InitScore /\ [][NextScore]_vars

-----------------------------------------------------------------------------
(* The two recommendation strategies as functions of what the stores, the   *)
(* retrieval service and the agents answer: Init draws these and the        *)
(* actions apply get_recommendations_from_dynamo and process_job_results.   *)

SelectRetrievalLists ==
    RetrievalLists
    \cup { <<[uri |-> UriA, score |-> PyInt(50)], [uri |-> UriB, score |-> PyInt(75)],
             [uri |-> UriC, score |-> PyInt(25)]>>,
           <<[uri |-> UriC, score |-> PyInt(25)], [uri |-> UriA, score |-> PyInt(50)],
             [uri |-> UriB, score |-> PyInt(75)]>> }
SelectScores == {PyNone, PyInt(60)}
SelectInputs ==
    [path : {"dynamo"}, template : TemplateOutcomes, failing : FailingSets]
    \cup [path : {"retrieval"}, retrieval : SelectRetrievalLists, bedrock_score : SelectScores,
          outcomes : [1..MaxResults -> AgentOutcomes]]

InitSelect ==
    /\ FlaskStart
    /\ session = EmptyDict
    /\ openai_api_key = TRUE
    /\ raw = PyNone
    /\ normalized = Pending
    /\ collaborators \in SelectInputs

\* A call get_recommendations_from_dynamo().
SelectFromDynamo ==
    /\ pc = "idle"
    /\ collaborators.path = "dynamo"
    /\ \E r \in {get_recommendations_from_dynamo(collaborators.template, collaborators.failing)} :
          /\ recommendations' = r.ret
          /\ calls' = [calls EXCEPT !.template = @ + 1, !.job = @ + r.job]
    /\ dynamo' = [template |-> collaborators.template, failing |-> collaborators.failing]
    /\ pc' = "selected"
    /\ UNCHANGED <<session, analysis, response, assessments, openai_api_key, instances, attempt,
                   retrieval_results, bedrock_pct, raw, normalized, collaborators,
                   evaluation_result, templates, request_form, submissions, query>>

\* A call job_analyzer.process_job_results(retrieval_results, bedrock_score).
SelectFromRetrieval ==
    /\ pc = "idle"
    /\ collaborators.path = "retrieval"
    /\ recommendations' = process_job_results(collaborators.retrieval, collaborators.bedrock_score,
                                              TRUE, collaborators.outcomes)
    /\ retrieval_results' = collaborators.retrieval
    /\ pc' = "selected"
    /\ UNCHANGED <<session, analysis, response, assessments, openai_api_key, instances, calls, attempt,
                   bedrock_pct, raw, normalized, dynamo, collaborators, evaluation_result,
                   templates, request_form, submissions, query>>

NextSelect ==
    \/ SelectFromDynamo
    \/ SelectFromRetrieval

SpecSelect == InitSelect /\ [][NextSelect]_vars

-----------------------------------------------------------------------------
(* The two services of src/lambda_functions: POST /submit_questionnaire of  *)
(* questionnaire_api.py and GET /results/{assessment_id} of results_api.py. *)
(* `assessments` holds the items of the assessments table in the order of   *)
(* their creation (the id of an item is its index), `request_form` and      *)
(* `response` the body and the answer of the last submission, and           *)
(* `instances` the position and the locals of get_results in every          *)
(* execution environment of the results function.  An environment takes one *)
(* step per call of DynamoDB, of Bedrock or of time.sleep, so that requests *)
(* interleave between the calls.                                            *)

\* json.dumps(value) for a value made of dicts, strings and None: the text is
\* kept as the value json.loads decodes it to.
json_dumps(value) == [t |-> "json", v |-> value]

\* Lines 76-81 of get_results: json.loads(assessment['analysis']) with
\* `analysis_data = {}` for a text that is not JSON.  Only JSONDecodeError
\* is caught: the TypeError json.loads raises for a value that is no text
\* (a Map, a List, a Number) leaves get_results.
LoadsAnalysis(text) ==
    IF text.t = "json" THEN text.v
    ELSE IF text.t = "str"
    THEN IF json_loads(text.s).t = "raise" THEN Dict(EmptyDict) ELSE json_loads(text.s)
    ELSE Raise("TypeError")

\* Variant that never finds a cached analysis.
never_cached(assessment) == FALSE

\* `if assessment.get('analysis')` of get_results (line 75): the truth value
\* of the attribute, None when the item has none.
has_cached_analysis(assessment) == Truthy(DictGet(assessment, "analysis", PyNone))

\* The dict of answers get_results builds from the item.
AnswersOf(assessment) ==
    [q1 |-> assessment["q1_answer"], q2 |-> assessment["q2_answer"],
     q3 |-> assessment["q3_answer"], q4 |-> assessment["q4_answer"],
     q5 |-> assessment["q5_answer"]]

\* analyze_responses(answers) of results_api.py: the template of the
\* combination (None when there is none); for a free text that is not blank
\* it calls response_evaluator.evaluate_free_response, a method
\* ResponseEvaluator (src/response_evaluator.py) does not have.
api_analyze_responses(answers) ==
    LET template_analysis ==
            get_analysis_for_combination(answers["q1"], answers["q2"], answers["q3"],
                                         answers["q4"])
    IN IF answers["q5"] # "" /\ strip(answers["q5"]) # ""
       THEN Raise("AttributeError")
       ELSE template_analysis

\* get_job_recommendations(analysis, answers) of results_api.py: the strategy.
api_get_job_recommendations(answers) ==
    LET q5_response == DictGet(answers, "q5", "")
    IN IF q5_response = "" \/ strip(q5_response) = "" THEN "dynamo" ELSE "bedrock"

\* get_fallback_recommendations() of results_api.py; fit_score in hundredths.
fallback_jobs ==
    << [title |-> "Software Developer", company |-> "Tech Solutions Inc.",
        location |-> "Remote",
        description |-> "Develop and maintain software applications using modern programming languages and frameworks.",
        fit_score |-> 85,
        strengths_match |-> <<"Detail-oriented tasks", "Structured environment", "Technical focus">>,
        considerations |-> <<"May involve some team meetings", "Deadlines can vary">>],
       [title |-> "Data Analyst", company |-> "Data Insights Corp",
        location |-> "Remote / Hybrid",
        description |-> "Analyze complex datasets to extract insights and create reports for business stakeholders.",
        fit_score |-> 82,
        strengths_match |-> <<"Pattern recognition", "Detailed analysis", "Independent work">>,
        considerations |-> <<"May require some presentations", "Occasional client interaction">>],
       [title |-> "Quality Assurance Specialist", company |-> "Quality First Tech",
        location |-> "Remote",
        description |-> "Ensure software quality through systematic testing and documentation of issues.",
        fit_score |-> 78,
        strengths_match |-> <<"Attention to detail", "Systematic approach", "Process-oriented">>,
        considerations |-> <<"Daily team check-ins", "May require schedule flexibility">>] >>

\* get_recommendations_from_dynamo(answers) of results_api.py when
\* get_item on the template table behaves as `tmpl` and the job lookups of
\* `failing` raise: get_template_by_id returns the Item or None,
\* get_job_by_id likewise.  Returns the list and the number of job lookups.
api_get_recommendations_from_dynamo(tmpl, failing) ==
    LET template == IF tmpl.t = "dict" /\ "Item" \in DOMAIN tmpl.v THEN tmpl.v["Item"]
                    ELSE EmptyDict
        recommended_jobs ==
            IF "recommended_jobs" \in DOMAIN template
            THEN LET r == template["recommended_jobs"]
                 IN IF r.t = "str"
                    THEN (IF LoadsJobList(r.s).t = "raise" THEN r ELSE LoadsJobList(r.s))
                    ELSE r
            ELSE DictGet(template, "matching_jobs", List(<<>>))
        matching_job_ids ==
            CASE recommended_jobs.t = "list" -> recommended_jobs.v
              [] recommended_jobs.t = "str" -> Chars(recommended_jobs.s)
              [] OTHER -> <<>>
        job_recommendations == LookupJobs(matching_job_ids, failing, 1)
    IN IF tmpl.t = "raise" \/ DOMAIN template = {} THEN [ret |-> fallback_jobs, job |-> 0]
       ELSE IF ~TruthyList(recommended_jobs) THEN [ret |-> fallback_jobs, job |-> 0]
       ELSE IF recommended_jobs.t \notin {"list", "str"} THEN [ret |-> fallback_jobs, job |-> 0]
       ELSE [ret |-> IF job_recommendations = <<>> THEN fallback_jobs ELSE job_recommendations,
             job |-> Len(matching_job_ids)]

\* The postings get_recommendations_from_bedrock of results_api.py makes of
\* the results of a retrieve call that returned: the first five become
\* postings with fit_score (10 - i) / 10, in hundredths; the fallback list
\* when there is none.
api_process_results(retrieval) ==
    LET shown == IF Len(retrieval) < 5 THEN Len(retrieval) ELSE 5
        processed_results ==
            [i \in 1..shown |->
                [title |-> "Job " \o ToString(i) \o " from Bedrock search",
                 company |-> "Unknown Company",
                 location |-> "Unknown Location",
                 description |-> "Job found based on your preferences. URI: s3://"
                                 \o DictGet(retrieval[i], "uri", ""),
                 fit_score |-> (10 - (i - 1)) * 10,
                 strengths_match |-> <<"Matches your work preferences", "Aligns with your skills">>,
                 considerations |-> <<"Consider reaching out for more details">>]]
    IN IF processed_results = <<>> THEN fallback_jobs ELSE processed_results

\* retry_delay = 5 (seconds) before the retry loop.
api_retry_delay == 5

\* The execution environments of the results function that serve requests
\* side by side.
Instances == {1, 2}

\* The file deployed as job_analyzer.py next to results_api.py.  The bundle
\* takes response_evaluator.py and analysis_templates.py from src/; its
\* job_analyzer.py is the one of src/lambda_functions, whose __init__ reads
\* `os.environ` without `import os`, or the one of src/, whose __init__ does
\* not.
JobAnalyzerModules == {"src/lambda_functions/job_analyzer.py", "src/job_analyzer.py"}

\* An item stored with an analysis attribute before the two services were
\* deployed: the JSON text of a profile, an empty text, a text that is not
\* JSON, or the profile itself as a Map.
StoredItems ==
    { [q1_answer |-> "A", q2_answer |-> "B", q3_answer |-> "C", q4_answer |-> "A",
       q5_answer |-> LongText,
       analysis |-> json_dumps(get_analysis_for_combination("A", "B", "C", "A"))] }
    \cup { [q1_answer |-> "A", q2_answer |-> "B", q3_answer |-> "C", q4_answer |-> "A",
            q5_answer |-> "", analysis |-> a] :
               a \in {Str(""), Str(NotJson), get_analysis_for_combination("A", "B", "C", "A")} }

\* What the template table, the job table and bedrock.retrieve answer to the
\* results function.
ApiTemplateOutcomes ==
    { Raise("ClientError"), Dict(EmptyDict),
      Dict([Item |-> [recommended_jobs |-> List(<<PyInt(MissingJobId)>>)]]),
      Dict([Item |-> [recommended_jobs |-> List(<<PyInt(2), PyInt(1)>>)]]),
      Dict([Item |-> [recommended_jobs |-> Str(JobListText)]]) }
ApiFailingSets == {{}, {1}}
ApiRetrieveOutcomes ==
    { Raise("resuming after being auto-paused"), List(<<>>),
      List(<<[uri |-> UriA, score |-> PyInt(50)], [uri |-> UriB, score |-> PyInt(75)]>>),
      List([i \in 1..LongLen |-> [uri |-> UriA, score |-> PyInt(75)]]) }

\* Bodies posted to the questionnaire service: complete ones without a free
\* text, with a blank and with a long one, one whose q1 is no option of the
\* question, and one without q4.
ApiForms ==
    { [q1 |-> "A", q2 |-> "B", q3 |-> "C", q4 |-> "A"],
      [q1 |-> "A", q2 |-> "B", q3 |-> "C", q4 |-> "A", q5 |-> BlankText],
      [q1 |-> "A", q2 |-> "B", q3 |-> "C", q4 |-> "A", q5 |-> LongText],
      [q1 |-> "Z", q2 |-> "B", q3 |-> "C", q4 |-> "A"],
      [q1 |-> "A", q2 |-> "B", q3 |-> "C"] }

\* Identifiers asked for: those of the items and one that does not exist.
ApiIds == 1..(MaxSubmissions + 1)

\* An execution environment whose module has not been imported yet.
ColdInstance ==
    [pc |-> "cold", assessment_id |-> 0, assessment |-> Pending, analysis_data |-> Pending,
     query |-> NoQuery, attempt |-> 0, retry_delay |-> 0, retrieval_results |-> <<>>,
     recommendations |-> <<>>, response |-> "none", calls |-> NoCalls,
     analysis_object |-> NoObject]

\* The locals of get_results when a request for assessment_id arrives.
FreshRequest(assessment_id) ==
    [ColdInstance EXCEPT !.pc = "idle", !.assessment_id = assessment_id]

\* The end of get_results: the response, which the AnalysisResponse model
\* rejects (500) when the analysis is not a dict.
Returned(inst, recs) ==
    [inst EXCEPT !.pc = "idle", !.recommendations = recs,
                 !.response = IF inst.analysis_data.t = "dict" THEN "200" ELSE "500"]

\* The deployment: the bundle, the assessments table as it finds it and
\* the execution environments, none of which has run yet.
InitApi ==
    /\ templates = NotWritten
    /\ pc = "idle"
    /\ analysis = Pending
    /\ recommendations = <<>>
    /\ response = "none"
    /\ assessments \in {<<>>} \cup {<<item>> : item \in StoredItems}
    /\ calls = NoCalls
    /\ attempt = 0
    /\ retrieval_results = <<>>
    /\ bedrock_pct = Unbound
    /\ dynamo = Pending
    /\ evaluation_result = Pending
    /\ request_form = Pending
    /\ submissions = 0
    /\ query = NoQuery
    /\ instances = [i \in Instances |-> ColdInstance]
    /\ session = EmptyDict
    /\ openai_api_key = FALSE
    /\ collaborators \in {[job_analyzer |-> m] : m \in JobAnalyzerModules}
    /\ raw = PyNone
    /\ normalized = Pending

\* POST /submit_questionnaire (questionnaire_api.py): a body without q1-q4 is
\* rejected by the QuestionnaireResponse model (422); save_assessment puts
\* the item (put_item may raise: 500).  The table holds at most
\* MaxSubmissions items.
ApiSubmit(body) ==
    /\ request_form' = body
    /\ IF \E q \in {"q1", "q2", "q3", "q4"} : q \notin DOMAIN body
       THEN /\ response' = "422"
            /\ UNCHANGED <<assessments, submissions>>
       ELSE \E saved \in BOOLEAN :
              IF saved
              THEN /\ Len(assessments) < MaxSubmissions
                   /\ assessments' =
                         Append(assessments,
                                [q1_answer |-> body["q1"], q2_answer |-> body["q2"],
                                 q3_answer |-> body["q3"], q4_answer |-> body["q4"],
                                 q5_answer |-> DictGet(body, "q5", "")])
                   /\ submissions' = submissions + 1
                   /\ response' = "200"
              ELSE /\ response' = "500"
                   /\ UNCHANGED <<assessments, submissions>>
    /\ UNCHANGED <<session, pc, analysis, recommendations, openai_api_key, instances, calls,
                   attempt, retrieval_results, bedrock_pct, raw, normalized, dynamo,
                   collaborators, evaluation_result, templates, query>>

\* What every step of the results function leaves alone.
ApiFrame ==
    UNCHANGED <<session, pc, analysis, recommendations, response, openai_api_key, calls,
                attempt, retrieval_results, bedrock_pct, raw, normalized, dynamo,
                collaborators, evaluation_result, templates, request_form, submissions, query>>

\* The first invocation of an execution environment imports results_api.py:
\* `job_analyzer = JobAnalyzer(s3_client=s3_client)` at module level raises
\* NameError with the job_analyzer.py of src/lambda_functions.
ApiColdStart(i) ==
    /\ instances[i].pc = "cold"
    /\ instances' =
          [instances EXCEPT ![i].pc =
              IF collaborators.job_analyzer = "src/job_analyzer.py" THEN "idle" ELSE "failed"]
    /\ UNCHANGED assessments
    /\ ApiFrame

\* GET /results/{assessment_id} on an environment whose import failed: the
\* function has no handler and the gateway answers 502.
ApiImportError(i, assessment_id) ==
    /\ instances[i].pc = "failed"
    /\ instances' =
          [instances EXCEPT ![i] = [FreshRequest(assessment_id) EXCEPT !.pc = "failed",
                                                                       !.response = "502"]]
    /\ UNCHANGED assessments
    /\ ApiFrame

\* GET /results/{assessment_id} (results_api.py, get_results), lines 60-72:
\* get_assessment reads the item (get_item may raise: 500); 404 without it.
ApiGetAssessment(i, assessment_id) ==
    /\ instances[i].pc = "idle"
    /\ \E got \in BOOLEAN :
          instances' =
             [instances EXCEPT ![i] =
                 IF ~got
                 THEN [FreshRequest(assessment_id) EXCEPT !.response = "500"]
                 ELSE IF assessment_id \notin 1..Len(assessments)
                 THEN [FreshRequest(assessment_id) EXCEPT !.response = "404"]
                 ELSE [FreshRequest(assessment_id) EXCEPT
                          !.pc = "got", !.assessment = assessments[assessment_id]]]
    /\ UNCHANGED assessments
    /\ ApiFrame

\* get_results, lines 74-91: the cached analysis, or analyze_responses.  An
\* exception of either ends the request (500).  json.loads makes a new
\* object; analyze_responses (lines 118-136) returns the object
\* get_analysis_for_combination returned, the entry of analysis_templates
\* itself, which the rest of get_results reads (json.dumps, the query, the
\* response) and never assigns into.
ApiAnalyze(i) ==
    LET inst == instances[i]
        cached == has_cached_analysis(inst.assessment)
        answers == AnswersOf(inst.assessment)
        analysis_data == IF cached THEN LoadsAnalysis(inst.assessment["analysis"])
                         ELSE api_analyze_responses(answers)
    IN /\ inst.pc = "got"
       /\ instances' =
             [instances EXCEPT ![i] =
                 IF cached
                 THEN IF analysis_data.t = "raise"
                      THEN [inst EXCEPT !.pc = "idle", !.response = "500"]
                      ELSE [inst EXCEPT !.pc = "recommend", !.analysis_data = analysis_data,
                                        !.analysis_object =
                                            IF analysis_data.t = "dict" THEN RequestObject
                                            ELSE NoObject]
                 ELSE IF analysis_data.t = "raise"
                 THEN [inst EXCEPT !.pc = "idle", !.response = "500", !.calls.analyze = 1]
                 ELSE [inst EXCEPT !.pc = "update", !.analysis_data = analysis_data,
                                   !.calls.analyze = 1,
                                   !.analysis_object =
                                       get_analysis_object(answers["q1"], answers["q2"],
                                                           answers["q3"], answers["q4"])]]
       /\ UNCHANGED assessments
       /\ ApiFrame

\* get_results, lines 93-97: update_assessment sets the analysis attribute
\* of the item (update_item may raise, which update_assessment swallows).
ApiUpdateAssessment(i) ==
    LET inst == instances[i]
        id == inst.assessment_id
    IN /\ inst.pc = "update"
       /\ \E updated \in BOOLEAN :
             assessments' =
                IF updated
                THEN [assessments EXCEPT ![id] =
                         [k \in DOMAIN assessments[id] \cup {"analysis"} |->
                             IF k = "analysis" THEN json_dumps(inst.analysis_data)
                             ELSE assessments[id][k]]]
                ELSE assessments
       /\ instances' = [instances EXCEPT ![i].pc = "recommend", ![i].calls.update = 1]
       /\ ApiFrame

\* get_results, lines 99-116, for a blank free text:
\* get_recommendations_from_dynamo reads the template and the job table,
\* which no service writes, and get_results returns.
ApiRecommendFromDynamo(i) ==
    LET inst == instances[i]
    IN /\ inst.pc = "recommend"
       /\ api_get_job_recommendations(AnswersOf(inst.assessment)) = "dynamo"
       /\ \E tmpl \in ApiTemplateOutcomes, failing \in ApiFailingSets :
             \E d \in {api_get_recommendations_from_dynamo(tmpl, failing)} :
                instances' =
                   [instances EXCEPT ![i] =
                       Returned([inst EXCEPT !.calls.template = 1, !.calls.job = d.job],
                                d.ret)]
       /\ UNCHANGED assessments
       /\ ApiFrame

\* get_recommendations_from_bedrock, lines 222-268: the query and the locals
\* of the retry loop.
ApiBedrockQuery(i) ==
    LET inst == instances[i]
    IN /\ inst.pc = "recommend"
       /\ api_get_job_recommendations(AnswersOf(inst.assessment)) = "bedrock"
       /\ instances' =
             [instances EXCEPT ![i] =
                 [inst EXCEPT !.pc = "retrieve", !.query = bedrock_query(inst.analysis_data),
                              !.attempt = 0, !.retry_delay = api_retry_delay]]
       /\ UNCHANGED assessments
       /\ ApiFrame

\* One pass of the retry loop, lines 270-334: a retrieve call that returns
\* ends the loop and get_results returns; one that raises is followed by
\* time.sleep(retry_delay), or by the fallback list on the last attempt.
ApiRetrieve(i) ==
    LET inst == instances[i]
        called == [inst EXCEPT !.calls.retrieve = inst.calls.retrieve + 1]
    IN /\ inst.pc = "retrieve"
       /\ \E outcome \in ApiRetrieveOutcomes :
             instances' =
                [instances EXCEPT ![i] =
                    IF outcome.t = "list"
                    THEN Returned([called EXCEPT !.retrieval_results = outcome.v],
                                  api_process_results(outcome.v))
                    ELSE IF inst.attempt < max_retries - 1
                    THEN [called EXCEPT !.pc = "sleep"]
                    ELSE Returned(called, fallback_jobs)]
       /\ UNCHANGED assessments
       /\ ApiFrame

\* time.sleep(retry_delay) returns, lines 292-293: the delay doubles and the
\* loop goes to the next attempt.
ApiSleep(i) ==
    LET inst == instances[i]
    IN /\ inst.pc = "sleep"
       /\ instances' =
             [instances EXCEPT ![i] =
                 [inst EXCEPT !.pc = "retrieve", !.attempt = inst.attempt + 1,
                              !.retry_delay = inst.retry_delay * 2]]
       /\ UNCHANGED assessments
       /\ ApiFrame

NextApi ==
    \/ \E body \in ApiForms : ApiSubmit(body)
    \/ \E i \in Instances : ApiColdStart(i)
    \/ \E i \in Instances, assessment_id \in ApiIds : ApiImportError(i, assessment_id)
    \/ \E i \in Instances, assessment_id \in ApiIds : ApiGetAssessment(i, assessment_id)
    \/ \E i \in Instances : ApiAnalyze(i)
    \/ \E i \in Instances : ApiUpdateAssessment(i)
    \/ \E i \in Instances : ApiRecommendFromDynamo(i)
    \/ \E i \in Instances : ApiBedrockQuery(i)
    \/ \E i \in Instances : ApiRetrieve(i)
    \/ \E i \in Instances : ApiSleep(i)

SpecApi == InitApi /\ [][NextApi]_vars

-----------------------------------------------------------------------------
(* Properties of the recommendation selection (specification Spec) *)

\* The request has its recommendations: get_job_recommendations returned.
Recommended == pc \in {"store", "responded"}

\* C1: for every request, whatever the answers, the free text and the
\* failures of the collaborators, get_job_recommendations returns a list
\* with at least one posting.
C1_NeverEmpty == Recommended => Len(recommendations) >= 1

\* C1 witness: the profile store raised and the request still has postings.
C1_Witness ==
    /\ pc = "store"
    /\ dynamo # Pending
    /\ dynamo.template.t = "raise"
    /\ Len(recommendations) >= 1

\* Whether the job store resolves an identifier of a job list.
IdResolves(id, failing) ==
    CASE id.t = "int" -> id.n \in JobIds \ failing
      [] id.t = "str" -> IsDigit(id.s) /\ ToInt(id.s) \in JobIds \ failing
      [] OTHER -> FALSE

\* The profile item holds a recommended_jobs list of which no identifier
\* resolves.
NothingResolves ==
    /\ dynamo # Pending
    /\ dynamo.template.t = "dict"
    /\ "Item" \in DOMAIN dynamo.template.v
    /\ "recommended_jobs" \in DOMAIN dynamo.template.v["Item"]
    /\ LET ids == dynamo.template.v["Item"]["recommended_jobs"]
       IN /\ ids.t = "list"
          /\ \A i \in 1..Len(ids.v) : ~IdResolves(ids.v[i], dynamo.failing)

\* C2: with empty free text and a recommended_jobs list of which no
\* identifier resolves in the job store, or with non-empty free text and no
\* retrieval result after the attempts, the returned list is exactly the
\* list of get_fallback_recommendations.
C2_FallbackWhenNothingFound ==
    Recommended =>
        /\ (session["q5"] = "" /\ NothingResolves
               => recommendations = get_fallback_recommendations)
        /\ (session["q5"] # "" /\ retrieval_results = <<>>
               => recommendations = get_fallback_recommendations)

\* C2 witness: the list is [9999], 9999 is absent, and the fallback list is
\* returned.
C2_Witness ==
    /\ pc = "store"
    /\ session["q5"] = ""
    /\ dynamo # Pending
    /\ dynamo.template = Dict([Item |-> [recommended_jobs |-> List(<<PyInt(MissingJobId)>>)]])
    /\ recommendations = get_fallback_recommendations

\* C3: for every request the returned list has at most 10 postings, on the
\* precomputed path and on the retrieval path.
C3_AtMostTen == Recommended => Len(recommendations) <= 10

\* C4: for every request the returned list is ordered by match_score
\* descending: no posting is followed by one with a strictly higher score.
C4_SortedDescending ==
    Recommended =>
        \A i \in 1..(Len(recommendations) - 1) :
            recommendations[i].match_score >= recommendations[i + 1].match_score

\* C5: exactly one strategy runs in a request, chosen by whether the free
\* text is empty: empty, only the profile and job lookups run and the
\* retrieval service is not called; non-empty, only the retrieval runs and
\* the profile's job list is not read.
C5_ExactlyOneStrategy ==
    Recommended =>
        IF session["q5"] = ""
        THEN calls.template = 1 /\ dynamo # Pending /\ calls.retrieve = 0
        ELSE calls.retrieve >= 1 /\ calls.template = 0 /\ calls.job = 0 /\ dynamo = Pending

\* C5 witness: a request with empty free text that looked up two jobs and
\* never called the retrieval service.
C5_Witness ==
    /\ pc = "store"
    /\ session["q5"] = ""
    /\ calls.template = 1
    /\ calls.job = 2
    /\ calls.retrieve = 0

-----------------------------------------------------------------------------
(* Properties of normalize_analysis_data (specification SpecNormalize) *)

\* A value of a raw record's section in one of the three encodings: a nested
\* object with string fields, or a JSON text of such an object.
EncodedSection(v) ==
    \/ /\ v.t = "dict"
       /\ \A f \in DOMAIN v.v : v.v[f].t = "str"
    \/ /\ v.t = "str"
       /\ v.s \in JsonObjectTexts

\* A raw record whose sections are each nested, flattened, JSON-encoded or
\* absent.
EncodedRecord(r) ==
    /\ r.t = "dict"
    /\ \A k \in DOMAIN r.v :
          IF k \in AllSections THEN EncodedSection(r.v[k]) ELSE r.v[k].t = "str"

\* The five sections, each with a string description and explanation.
Complete(x) ==
    /\ x.t = "dict"
    /\ DOMAIN x.v = AllSections
    /\ \A s \in AllSections :
          /\ x.v[s].t = "dict"
          /\ DOMAIN x.v[s].v = {"description", "explanation"}
          /\ x.v[s].v["description"].t = "str"
          /\ x.v[s].v["explanation"].t = "str"

\* C6: for every raw record other than None, each section nested,
\* flattened, JSON-encoded or absent, normalize_analysis_data returns the
\* five sections, each with a non-null string description and explanation.
C6_Complete ==
    pc = "normalized" /\ raw # PyNone /\ EncodedRecord(raw) => Complete(normalized)

\* C7: when a raw record holds for a section both a flattened pair and a
\* nested object defining description and explanation, the normalized
\* section equals the nested object.
C7_NestedWins ==
    \A i \in 1..Len(MainSections) :
        LET section == MainSections[i] IN
        ( /\ pc = "normalized"
          /\ normalized.t = "dict"
          /\ raw.t = "dict"
          /\ section \in DOMAIN raw.v
          /\ raw.v[section].t = "dict"
          /\ DOMAIN raw.v[section].v = {"description", "explanation"}
          /\ \/ (section \o "_description") \in DOMAIN raw.v
             \/ (section \o "_explanation") \in DOMAIN raw.v )
        => normalized.v[section] = raw.v[section]

\* C7 witness: work_style_description "X" with work_style {"Y", "Z"}.
C7_Witness ==
    /\ pc = "normalized"
    /\ raw = Dict([work_style_description |-> Str("X"),
                   work_style |-> Dict([description |-> Str("Y"), explanation |-> Str("Z")])])
    /\ normalized.t = "dict"
    /\ normalized.v["work_style"] = Dict([description |-> Str("Y"), explanation |-> Str("Z")])

-----------------------------------------------------------------------------
(* Properties of the enrichment (specification SpecEvaluate) *)

\* The free text is "" or whitespace only.
BlankAnswer == session["q5"] \in {EmptyText, BlankText}

\* C8: for every normalized analysis, enrichment with "" and with
\* whitespace-only free text set additional_insights to the same fixed pair.
C8_BlankSentinel ==
    pc \in {"insights", "enriched"} /\ BlankAnswer =>
        /\ analysis.t = "dict"
        /\ analysis.v["additional_insights"] =
              Dict([description |-> Str("No additional information provided"),
                    explanation |-> Str("You did not provide any additional context about your work preferences.")])

\* C8 witness: whitespace-only free text replaced the insights "Y"/"Z".
C8_Witness ==
    /\ pc = "enriched"
    /\ session["q5"] = BlankText
    /\ normalized.v["additional_insights"] = Dict([description |-> Str("Y"), explanation |-> Str("Z")])
    /\ analysis.v["additional_insights"].v["description"] = Str("No additional information provided")

\* C9: with empty or whitespace-only free text the enrichment calls neither
\* the relevance evaluator nor the LLM, and the evaluator does not run its
\* crew.
C9_BlankNoCalls ==
    /\ (pc \in {"insights", "enriched"} /\ BlankAnswer
           => calls.evaluate = 0 /\ calls.kickoff = 0 /\ calls.llm = 0)
    /\ (pc = "evaluated" /\ BlankAnswer => calls.kickoff = 0 /\ calls.llm = 0)

\* C9 witness: empty free text, with a client and collaborators that would
\* have answered, and no call made.
C9_Witness ==
    /\ pc = "insights"
    /\ session["q5"] = EmptyText
    /\ openai_api_key
    /\ collaborators.crew.t = "crewoutput"
    /\ collaborators.crew.text = UsefulText
    /\ collaborators.llm = Str(JsonBoth)
    /\ calls = NoCalls

\* The crew ran and raised.
CrewRaised == calls.kickoff = 1 /\ collaborators.crew.t = "raise"

\* The crew ran and its output holds no JSON object that parses, neither in
\* raw_output nor in its string form, and no result dict.
CrewUnparseable ==
    /\ calls.kickoff = 1
    /\ collaborators.crew.t = "crewoutput"
    /\ \/ collaborators.crew.raw_output = NoAttr
       \/ collaborators.crew.raw_output.s \in {ProseText, BrokenText}
    /\ collaborators.crew.text \in {ProseText, BrokenText}
    /\ collaborators.crew.result = NoAttr

\* C10: if the relevance evaluator raises or its output cannot be parsed,
\* the evaluation has is_useful false and no LLM completion call is made.
C10_EvaluatorFailureNotUseful ==
    pc \in {"evaluated", "insights", "enriched"} /\ (CrewRaised \/ CrewUnparseable) =>
        /\ evaluation_result.t = "dict"
        /\ "is_useful" \in DOMAIN evaluation_result.v
        /\ evaluation_result.v["is_useful"] = Bool(FALSE)
        /\ calls.llm = 0

\* C10 witness: the crew raised in an enrichment with a client, and the
\* insights say the answer is not relevant.
C10_Witness ==
    /\ pc = "enriched"
    /\ openai_api_key
    /\ CrewRaised
    /\ calls.llm = 0
    /\ analysis.v["additional_insights"].v["description"] =
          Str("Additional information not relevant for job matching")

\* The evaluator reported is_useful true and a client is configured, so the
\* LLM was called.
LlmCalled ==
    /\ openai_api_key
    /\ evaluation_result # Pending
    /\ evaluation_result.t = "dict"
    /\ "is_useful" \in DOMAIN evaluation_result.v
    /\ evaluation_result.v["is_useful"] = Bool(TRUE)

\* The LLM call failed: it raised, or its content is not a JSON object with
\* the string fields description and explanation.
LlmFailed ==
    \/ collaborators.llm.t = "raise"
    \/ collaborators.llm.s # JsonBoth

\* C11: when the evaluator reports is_useful true, a client is configured
\* and the LLM call fails (it raises or its content is not an object with
\* the two string fields), get_additional_insights does not raise and sets
\* additional_insights to the generic sentinel pair.
C11_LlmFailureSentinel ==
    pc = "insights" /\ LlmCalled /\ LlmFailed =>
        /\ analysis.t = "dict"
        /\ analysis.v["additional_insights"] =
              Dict([description |-> Str("Additional information provided, but we couldn't customize the additional insights"),
                    explanation |-> Str("You shared specific preferences that provide further context for your work environment needs.")])

-----------------------------------------------------------------------------
(* Properties of the profile lookup (specification SpecResolve) *)

\* The profile the table was authored with for a code.
AuthoredProfile(key) ==
    Dict([section \in AllSections |->
            Dict([description |-> Str(TemplateText(key, section, "description")),
                  explanation |-> Str(TemplateText(key, section, "explanation"))])])

\* The table as authored.
AuthoredTable == [key \in TemplateKeys |-> AuthoredProfile(key)]

\* C12: get_analysis_for_combination returns the profile stored under exactly
\* the key q1+q2+q3+q4 when that key is in the table, and None otherwise; it
\* never returns the profile of another key and never a default.
C12_ExactKeyOrNone ==
    pc = "resolved" =>
        /\ IF SessionCode \in TemplateKeys
           THEN raw = AuthoredProfile(SessionCode)
           ELSE raw = PyNone
        /\ \A other \in TemplateKeys \ {SessionCode} : raw # AuthoredProfile(other)

\* A lookup with a code that is not in the table has answered None.
C12_Witness ==
    /\ pc = "resolved"
    /\ session["q1"] = "Z"
    /\ SessionCode \notin TemplateKeys
    /\ raw = PyNone

WellFormedAnswers == \A i \in 1..4 : session[MCQuestions[i]] \in Options[MCQuestions[i]]

IsProfile(x) ==
    /\ x.t = "dict"
    /\ DOMAIN x.v = AllSections
    /\ \A section \in AllSections :
          /\ x.v[section].t = "dict"
          /\ DOMAIN x.v[section].v = {"description", "explanation"}
          /\ x.v[section].v["description"].t = "str"
          /\ x.v[section].v["explanation"].t = "str"

\* C13: for every one of the 36 codes made of option letters the lookup
\* returns a profile.
C13_EveryWellFormedCodeHasProfile ==
    /\ Cardinality({c \in ResolveSessions :
                      \A i \in 1..4 : c[MCQuestions[i]] \in Options[MCQuestions[i]]}) = 36
    /\ (pc = "resolved" /\ WellFormedAnswers) => IsProfile(raw)

\* The lookup of the code BBCC has answered its profile.
C13_Witness ==
    /\ pc = "resolved"
    /\ WellFormedAnswers
    /\ SessionCode = "BBCC"
    /\ IsProfile(raw)

\* Whether a value is the formatted analysis with its five sections.
IsFormattedAnalysis(x) ==
    /\ x.t = "html"
    /\ DOMAIN x.strong = 1..5
    /\ DOMAIN x.muted = 1..5

\* C14: when the code is not in the table, analyze_responses returns a
\* generic default analysis with the five sections, never None.
C14_DefaultAnalysisForUnknownCode ==
    (pc = "analyzed" /\ SessionCode \notin DOMAIN analysis_templates) =>
        /\ analysis # PyNone
        /\ IsFormattedAnalysis(analysis)

-----------------------------------------------------------------------------
(* Properties of the web application's requests (specification Spec) *)

\* The request has passed analyze_responses.
Analyzed == pc \in {"recommend", "retrieve", "process", "store", "responded"}

\* C15: profiles are never mutated by the running system: after any sequence
\* of requests, including those whose enrichment overwrites the
\* additional_insights of the analysis, the table holds for every code the
\* profile it was authored with, so the lookup of a code gives the same
\* profile on every call.
C15_ProfilesNeverMutated ==
    /\ templates = NotWritten
    /\ \A q1 \in Options["q1"], q2 \in Options["q2"], q3 \in Options["q3"],
          q4 \in Options["q4"] :
          get_analysis_for_combination(q1, q2, q3, q4) = AuthoredTable[q1 \o q2 \o q3 \o q4]

\* The enrichment has overwritten the additional_insights of the analysis of
\* a request, and the profile of the request's code is as authored.
C15_Witness ==
    /\ pc = "recommend"
    /\ normalized.t = "dict"
    /\ raw = AuthoredProfile(SessionCode)
    /\ normalized.v["additional_insights"] # raw.v["additional_insights"]
    /\ get_analysis_for_combination(session["q1"], session["q2"], session["q3"],
                                    session["q4"]) = AuthoredProfile(SessionCode)

\* C16: the retrieval service is called at most 3 times per request; when
\* it raised on each of the 3 attempts no 4th call is made and the fallback
\* list is returned; a successful attempt ends the loop at once.
C16_AtMostThreeRetrievals ==
    /\ calls.retrieve <= 3
    /\ pc = "retrieve" => calls.retrieve = attempt /\ attempt < 3
    /\ (pc = "process" /\ attempt < 3) => calls.retrieve = attempt + 1
    /\ (pc \in {"process", "store", "responded"} /\ attempt = 3) =>
           /\ calls.retrieve = 3
           /\ retrieval_results = <<>>
           /\ Recommended => recommendations = get_fallback_recommendations

\* The service raised three times and the request has the fallback list.
C16_Witness ==
    /\ pc = "store"
    /\ attempt = 3
    /\ calls.retrieve = 3
    /\ recommendations = get_fallback_recommendations

\* The submitted form lacks a required answer.
LacksRequired(form) == \E q \in {"q1", "q2", "q3", "q4"} : q \notin DOMAIN form

\* C17: a submission that lacks one of q1-q4 is answered with a re-prompt
\* (the redirect to the questionnaire), never with a 500, and resolves no
\* profile, computes no recommendation and writes no record; a submission
\* that lacks only the optional q5 is accepted with q5 as the empty text.
C17_IncompleteSubmissionReprompted ==
    [][ request_form' # Pending =>
          IF LacksRequired(request_form')
          THEN /\ response' = "redirect:questionnaire"
               /\ pc' = "idle"
               /\ session' = session
               /\ assessments' = assessments
               /\ templates' = templates
               /\ analysis' = Pending
               /\ recommendations' = <<>>
               /\ calls' = NoCalls
          ELSE /\ response' = "redirect:results"
               /\ "q5" \notin DOMAIN request_form' => session'["q5"] = ""
      ]_vars

\* A form without q1 has been answered with the redirect to the
\* questionnaire.
C17_Witness ==
    /\ pc = "idle"
    /\ request_form # Pending
    /\ "q1" \notin DOMAIN request_form
    /\ "q5" \in DOMAIN request_form
    /\ response = "redirect:questionnaire"
    /\ assessments = <<>>

\* C18: each completed submission has exactly one persisted record, however
\* often the result page is viewed: after a result page was served the table
\* never holds more records than there were submissions.
C18_OneRecordPerSubmission ==
    (pc = "idle" /\ response = "200:results") => Len(assessments) <= submissions

-----------------------------------------------------------------------------
(* Properties of the Lambda handler (specification SpecLambda) *)

\* The answers give q1-q4 and one of them is no option of its question.
InvalidLetterSubmitted ==
    /\ ~LacksRequired(request_form)
    /\ \E i \in 1..4 : request_form[MCQuestions[i]] \notin Options[MCQuestions[i]]

\* C19: a submission in which one of q1-q4 holds a value outside the
\* question's option set is rejected at the boundary: the profile lookup
\* get_analysis_for_combination is never invoked with such a code.
C19_InvalidLetterNeverLookedUp ==
    InvalidLetterSubmitted => calls.template = 0 /\ ~Analyzed

-----------------------------------------------------------------------------
(* Properties of the posting's score (specification SpecScore) *)

\* The agents were reached and the matching output gave match_info.
AgentAnswered == collaborators.s3_client /\ collaborators.agent.t = "matched"

\* The agent's match_info holds an integer match score.
AgentScored ==
    /\ AgentAnswered
    /\ "match_score" \in DOMAIN collaborators.agent.match_info
    /\ collaborators.agent.match_info["match_score"].t = "int"

\* The agent's match_info holds no match score: the output gave none, or it
\* could not be parsed (match_info is empty).
AgentGaveNoScore ==
    /\ AgentAnswered
    /\ "match_score" \notin DOMAIN collaborators.agent.match_info

\* C20: with retrieval-relevance score b and agent score s, integers in
\* 0..100, the posting's match_score is floor((b + s) / 2); when the agent
\* supplies no score or its output cannot be parsed the match_score is b.
C20_MeanOfScores ==
    pc = "scored" =>
        LET b == collaborators.bedrock_score
        IN /\ AgentScored =>
                LET s == collaborators.agent.match_info["match_score"].n
                IN /\ Len(recommendations) = 1
                   /\ 2 * recommendations[1].match_score <= b + s
                   /\ b + s < 2 * recommendations[1].match_score + 2
           /\ AgentGaveNoScore =>
                /\ Len(recommendations) = 1
                /\ recommendations[1].match_score = b

\* Relevance 75 and agent score 90 give the posting the score 82.
C20_Witness ==
    /\ pc = "scored"
    /\ AgentScored
    /\ collaborators.bedrock_score = 75
    /\ collaborators.agent.match_info["match_score"].n = 90
    /\ Len(recommendations) = 1
    /\ recommendations[1].match_score = 82

-----------------------------------------------------------------------------
(* Properties of the two strategies (specification SpecSelect) *)

\* The url of the posting made from a retrieval result.
UrlOf(s3_uri) ==
    "https://console.aws.amazon.com/s3/object/" \o SplitUri(s3_uri).bucket \o "/"
        \o SplitUri(s3_uri).key

\* Index of the first retrieval result from which a posting can come.
RetrievalIndex(posting) ==
    CHOOSE k \in 1..Len(retrieval_results) :
        /\ "uri" \in DOMAIN retrieval_results[k]
        /\ UrlOf(retrieval_results[k]["uri"]) = posting.url
        /\ \A l \in 1..(k - 1) :
              ~("uri" \in DOMAIN retrieval_results[l]
                /\ UrlOf(retrieval_results[l]["uri"]) = posting.url)

\* The identifier list of the template item, when it holds a list.
HasIdList ==
    /\ dynamo # Pending
    /\ dynamo.template.t = "dict"
    /\ "Item" \in DOMAIN dynamo.template.v
    /\ "recommended_jobs" \in DOMAIN dynamo.template.v["Item"]
    /\ dynamo.template.v["Item"]["recommended_jobs"].t = "list"
IdList == dynamo.template.v["Item"]["recommended_jobs"].v

\* The job number an identifier names.
IdNumber(id) == IF id.t = "int" THEN id.n ELSE ToInt(id.s)

\* Index of the first resolvable identifier that names a job.
IdIndex(job_id) ==
    CHOOSE k \in 1..Len(IdList) :
        /\ IdResolves(IdList[k], dynamo.failing)
        /\ IdNumber(IdList[k]) = job_id
        /\ \A l \in 1..(k - 1) :
              ~(IdResolves(IdList[l], dynamo.failing) /\ IdNumber(IdList[l]) = job_id)

SomeIdResolves == \E k \in 1..Len(IdList) : IdResolves(IdList[k], dynamo.failing)

\* C21: two postings of the returned list with equal match_score are in the
\* relative order of the retrieval results (retrieval path) or of the
\* identifiers of recommended_jobs (precomputed path) they come from.
C21_TiesKeepSourceOrder ==
    pc = "selected" =>
        \A i \in 1..Len(recommendations), j \in 1..Len(recommendations) :
            (i < j /\ recommendations[i].match_score = recommendations[j].match_score) =>
                IF collaborators.path = "retrieval"
                THEN RetrievalIndex(recommendations[i]) <= RetrievalIndex(recommendations[j])
                ELSE (HasIdList /\ SomeIdResolves) =>
                         IdIndex(recommendations[i].job_id) <= IdIndex(recommendations[j].job_id)

\* Three retrieval results gave three postings; the first and the last have
\* the same score and are in the order of the retrieval.
C21_Witness ==
    /\ pc = "selected"
    /\ collaborators.path = "retrieval"
    /\ Len(retrieval_results) = 3
    /\ Len(recommendations) = 3
    /\ \E i \in 1..2 :
          /\ recommendations[i].match_score = recommendations[i + 1].match_score
          /\ RetrievalIndex(recommendations[i]) < RetrievalIndex(recommendations[i + 1])
    /\ recommendations[1].match_score > recommendations[3].match_score

\* The job records of the resolvable identifiers, in list order.
RECURSIVE ResolvedRecords(_, _)
ResolvedRecords(ids, failing) ==
    IF ids = <<>> THEN <<>>
    ELSE (IF IdResolves(Head(ids), failing) THEN <<JobItem(IdNumber(Head(ids)))>> ELSE <<>>)
         \o ResolvedRecords(Tail(ids), failing)

\* C22: on the precomputed path an identifier that is absent from the job
\* store or whose lookup raises is skipped without aborting the request:
\* when at least one identifier resolves, the returned list is exactly the
\* job records of the resolvable identifiers, in identifier-list order.
C22_UnresolvedSkipped ==
    (pc = "selected" /\ collaborators.path = "dynamo" /\ HasIdList /\ SomeIdResolves) =>
        recommendations = ResolvedRecords(IdList, dynamo.failing)

\* The list is ["3", 9999, 1], 9999 is absent, and the records of the jobs 3
\* and 1 are returned.
C22_Witness ==
    /\ pc = "selected"
    /\ HasIdList
    /\ IdList = <<Str("3"), PyInt(MissingJobId), PyInt(1)>>
    /\ dynamo.failing = {2}
    /\ recommendations = <<JobItem(3), JobItem(1)>>

-----------------------------------------------------------------------------
(* Properties of the query (specification SpecEvaluate) *)

\* The two placeholder descriptions of additional_insights.
PlaceholderDescriptions ==
    {"Additional information not relevant for job matching", "No additional insights"}

\* The descriptions the query is to be made of, for the analysis rendered
\* as `html`: those of the four sections, then the enrichment description
\* unless it is a placeholder.
QueryParts(html) ==
    SubSeq(html.strong, 1, 4)
    \o (IF html.strong[5] \in PlaceholderDescriptions THEN <<>> ELSE <<html.strong[5]>>)

\* C23: on the retrieval path the query text is the prefix followed by the
\* descriptions of work_style, environment, interaction_level and
\* task_preference in this order, followed by the enrichment description if
\* and only if it is not the 'not relevant' or the 'no insights'
\* placeholder (with or without a space after the prefix).
C23_QueryFromDescriptions ==
    pc = "queried" =>
        \E sep \in {"", " "} :
            query = QueryPrefix \o sep \o JoinWithSpace(QueryParts(format_analysis(analysis)))

\* The evaluation handed to get_additional_insights is an object without
\* is_useful or without reasoning.
EvaluationMalformed ==
    /\ evaluation_result # Pending
    /\ evaluation_result.t = "dict"
    /\ \/ "is_useful" \notin DOMAIN evaluation_result.v
       \/ "reasoning" \notin DOMAIN evaluation_result.v

\* The descriptions of the sentinel pairs of get_additional_insights.
SentinelDescriptions ==
    {"No additional information provided",
     "Additional information provided, but we couldn't customize the additional insights",
     "Additional information not relevant for job matching",
     "Additional information provided, but couldn't be processed"}

\* C25: when the evaluation is an object that lacks is_useful or reasoning,
\* the enrichment block of analyze_responses ends without an exception and
\* additional_insights is a sentinel pair, not the value the profile was
\* authored with.
C25_MalformedEvaluationSentinel ==
    (pc = "enriched" /\ EvaluationMalformed) =>
        /\ analysis.t = "dict"
        /\ analysis.v["additional_insights"].t = "dict"
        /\ analysis.v["additional_insights"].v["description"].t = "str"
        /\ analysis.v["additional_insights"].v["description"].s \in SentinelDescriptions

-----------------------------------------------------------------------------
(* Further properties of normalize_analysis_data (specification             *)
(* SpecNormalize)                                                           *)

\* The object a section value stands for: the nested object itself, or
\* what a JSON-encoded string decodes to.
DecodedSection(v) == IF v.t = "str" THEN json_loads(v.s) ELSE v

\* The section value defines exactly `field` of description and
\* explanation, as a nested object or as a JSON-encoded string.
DefinesOnly(v, field) ==
    /\ v.t \in {"dict", "str"}
    /\ DecodedSection(v).t = "dict"
    /\ DOMAIN DecodedSection(v).v = {field}

OtherField(field) == IF field = "description" THEN "explanation" ELSE "description"

\* C24: when a section is present both flattened and nested and the nested
\* form (an object or a JSON-encoded string) defines only one of
\* description and explanation, the normalized section has the nested
\* value in that field and the flattened value in the other.
C24_PartialNestedKeepsOther ==
    \A i \in 1..Len(MainSections), field \in {"description", "explanation"} :
        LET section == MainSections[i]
            other == section \o "_" \o OtherField(field)
        IN ( /\ pc = "normalized"
             /\ raw.t = "dict"
             /\ section \in DOMAIN raw.v
             /\ other \in DOMAIN raw.v
             /\ DefinesOnly(raw.v[section], field)
             /\ \A k \in DOMAIN raw.v : k \in AllSections => DecodedSection(raw.v[k]).t = "dict" )
           => /\ normalized.t = "dict"
              /\ normalized.v[section].v[field] = DecodedSection(raw.v[section]).v[field]
              /\ normalized.v[section].v[OtherField(field)] = raw.v[other]

\* C30: normalize_analysis_data does not raise for a record with a section
\* whose value is a string: a string that is a JSON object is decoded, and
\* any other string (not JSON, or JSON that is not an object) becomes the
\* description of the section.
C30_StringSectionNeverRaises ==
    \A section \in AllSections :
        ( /\ pc = "normalized"
          /\ raw.t = "dict"
          /\ section \in DOMAIN raw.v
          /\ raw.v[section].t = "str" )
        => /\ normalized.t = "dict"
           /\ IF json_loads(raw.v[section].s).t = "dict"
              THEN \A f \in DOMAIN json_loads(raw.v[section].s).v :
                      normalized.v[section].v[f] = json_loads(raw.v[section].s).v[f]
              ELSE normalized.v[section].v["description"] = raw.v[section]

-----------------------------------------------------------------------------
(* Persistence failures (specification SpecLambda) *)

-----------------------------------------------------------------------------
(* The empty free-text answer in the web application (specification Spec) *)

\* C29: for a free-text answer that is whitespace only, the enrichment
\* writes the 'No additional information provided' pair without calling the
\* evaluator, and the selector takes the precomputed path: the retrieval
\* service is never called.
C29_BlankAnswerNoRetrieval ==
    ( /\ pc \in {"retrieve", "process", "store", "responded"}
      /\ "q5" \in DOMAIN session
      /\ session["q5"] = BlankText
      /\ analysis.t = "html" )
    => /\ analysis.strong[5] = "No additional information provided"
       /\ calls.evaluate = 0
       /\ calls.kickoff = 0
       /\ calls.llm = 0
       /\ calls.retrieve = 0
       /\ pc # "retrieve"

-----------------------------------------------------------------------------
(* Properties of the services of src/lambda_functions (specification        *)
(* SpecApi)                                                                 *)

\* Environment i has answered GET /results/{assessment_id} with 200 after a
\* template lookup that gave no job id: get_recommendations_from_dynamo
\* returned get_fallback_recommendations().
FallbackReturned(i) ==
    /\ instances[i].pc = "idle"
    /\ instances[i].response = "200"
    /\ instances[i].calls.template = 1
    /\ instances[i].calls.job = 0
    /\ instances[i].calls.retrieve = 0

\* A posting with the fields of JobPosting and a score within 65..95.
ValidJobPosting(p) ==
    /\ {"title", "company", "location", "match_score", "reasoning", "url"} \subseteq DOMAIN p
    /\ p.match_score \in 65..95

\* C26: the list get_fallback_recommendations returns has between 3 and 10
\* postings, each a valid JobPosting (title, company, location, match_score,
\* reasoning, url) with match_score within 65..95, in non-increasing order
\* of match_score.
C26_FallbackPostingsValid ==
    \A e \in DOMAIN instances :
        FallbackReturned(e) =>
            LET recs == instances[e].recommendations
            IN /\ Len(recs) \in 3..10
               /\ \A i \in 1..Len(recs) : ValidJobPosting(recs[i])
               /\ \A i \in 1..(Len(recs) - 1) : recs[i].match_score >= recs[i + 1].match_score

AnswerFields == {"q1_answer", "q2_answer", "q3_answer", "q4_answer", "q5_answer"}

\* The get_results call of the environment read an item whose analysis
\* attribute is present and true in the Python sense.
FoundCached(inst) == Truthy(DictGet(inst.assessment, "analysis", PyNone))

\* C27: an item of the assessments table is never deleted and its answers
\* never change; an item changes only in its analysis field, written by a
\* get_results call for this item that found no cached analysis; and a
\* get_results call that found a cached analysis neither analyzes again nor
\* writes.
C27_OnlyAnalysisWrittenOnce ==
    [][ /\ Len(assessments') >= Len(assessments)
        /\ \A n \in 1..Len(assessments) :
              /\ \A k \in AnswerFields : assessments'[n][k] = assessments[n][k]
              /\ assessments'[n] # assessments[n] =>
                    /\ DOMAIN assessments'[n] = DOMAIN assessments[n] \cup {"analysis"}
                    /\ \A k \in DOMAIN assessments[n] \ {"analysis"} :
                          assessments'[n][k] = assessments[n][k]
                    /\ \E e \in DOMAIN instances :
                          /\ instances[e].assessment_id = n
                          /\ ~FoundCached(instances[e])
                          /\ instances[e].calls.update = 0
                          /\ instances'[e].calls.update = 1
        /\ \A e \in DOMAIN instances' :
              FoundCached(instances'[e]) =>
                 /\ instances'[e].calls.analyze = 0
                 /\ instances'[e].calls.update = 0
                 /\ instances'[e].pc # "update" ]_vars

\* A get_results call has answered from the analysis that an earlier call
\* computed and wrote to the item, in place of the empty text the item was
\* stored with.
C27_Witness ==
    \E e \in DOMAIN instances :
        /\ instances[e].pc = "idle"
        /\ instances[e].response = "200"
        /\ FoundCached(instances[e])
        /\ instances[e].assessment["analysis"].t = "json"
        /\ instances[e].assessment["q5_answer"] # LongText
        /\ submissions = 0
        /\ instances[e].calls.analyze = 0
        /\ instances[e].calls.update = 0
        /\ instances[e].analysis_data = instances[e].assessment["analysis"].v
        /\ Len(instances[e].recommendations) >= 1

====
